---- MODULE Spec2Model ----
(***************************************************************************)
(* Session registry (SessionManager), session worker (SessionProcess and   *)
(* worker_function), memory monitor and idle sweep of the code executor.   *)
(*                                                                         *)
(* Threads of the supervisor: the callers of SessionManager.execute, the   *)
(* cleanup thread, one monitor thread per session.  One worker process per *)
(* session.  Every step below is one statement (or one critical section)   *)
(* of the Python source; the steps of different threads interleave freely. *)
(***************************************************************************)
EXTENDS Integers, Sequences, FiniteSets, TLC

(* ----------------------- constants of the source ---------------------- *)

\* SessionManager.MAX_SESSIONS, 40 in the source, scaled down: the cap is
\* reached, and would be passed, with two concurrent callers
MAX_SESSIONS == 1

\* SessionManager.IDLE_TIMEOUT_SECONDS, 60 in the source, scaled down to one
\* tick of the clock
IDLE_TIMEOUT_SECONDS == 1

\* CodeExecutor.TIMEOUT_SECONDS, the timeout_seconds of monitor_process_windows
timeout_seconds == 2

(* ------------------------------ bounds -------------------------------- *)

\* how many session ids uuid4 can hand out in one run
NumIds == 3

\* the clock runs from 0 to MaxTime
MaxTime == 2

\* the clock of the single-shot executor runs from 0 to MaxElapsed
MaxElapsed == 3

\* threads calling SessionManager.execute
Callers == {"c1", "c2"}

IdPool == <<"u1", "u2", "u3", "u4", "u5", "u6">>

Ids == {IdPool[i] : i \in 1..NumIds}

\* a caller-supplied id that uuid4 never produced
BOGUS == "nonexistent-session-id"

\* Python's None
None == "None"

\* the empty string returned as session id with 'max sessions reached'
EMPTY == ""

\* the code string of a request; what it does is decided when it runs
CODE == "code"

\* what a captured stream holds after an execution: nothing, or some text
Captured == {None, "text"}

(* ------------------------------- state -------------------------------- *)

VARIABLES
    sessions,        \* key set of SessionManager.sessions
    locks,           \* key set of SessionManager.locks
    manager_lock,    \* holder of SessionManager.manager_lock, or None
    uuid_count,      \* how many ids uuid4 has produced
    lock_holder,     \* per session lock object: its holder, or None
    last_accessed,   \* SessionProcess.last_accessed
    memory_exceeded, \* SessionProcess.memory_exceeded
    closed,          \* the session's queues were closed by terminate()
    input_queue,     \* SessionProcess.input_queue
    output_queue,    \* SessionProcess.output_queue
    alive,           \* SessionProcess.process.is_alive()
    wpc,             \* worker_function: "recv" (waiting), "exec", "dead"
    rss_over,        \* the worker's resident memory is above the ceiling
    namespace,       \* the worker's interpreter.locals: whose bindings it holds
    pc,              \* per caller: position in SessionManager.execute
    loc,             \* per caller: locals of execute (session_id, result)
    ret,             \* what the step just taken returned or raised, and to whom
    now,             \* time.time()
    issued,          \* history: ids that some call has returned
    timed_out,       \* history: sessions that returned 'execution timeout'
    mem_reported,    \* history: sessions that returned 'memory limit exceeded'
    faulted,         \* history: sessions whose execution in flight raised a fault
    waiters,         \* history: per session lock, the callers blocked in its
                     \* acquire(), in the order they started waiting
    wf_pc,           \* worker_function in detail: "off", "boot", "recv", "exec"
    applied,         \* how many times apply_sandbox_to_namespace has run
    bound_real,      \* denied primitives bound to their real implementation
    performed,       \* history: denied operations that were carried out
    exec_no,         \* how many codes the worker has received
    stdout_capture,  \* the StringIO that stands in for sys.stdout
    stderr_capture,  \* the StringIO that stands in for sys.stderr
    wrote_out,       \* history: what this execution wrote to stdout
    wrote_err,       \* history: what this execution wrote to stderr
    raised,          \* history: the fault this execution raised, or NoFault
    put_result,      \* the tuple last put on the output queue, or <<>>
    term_pc,         \* the owner stopping the worker: position in terminate()
                     \* or in the Empty handler of SessionProcess.execute
    term_path,       \* which of the two is running: "terminate", "timeout"
    stubborn,        \* the worker process does not exit on SIGTERM
    stop_log,        \* history: what the owner did and saw while stopping
    open_args,       \* safe_open looked at alone: its arguments file and mode
    open_ret,        \* safe_open looked at alone: what the call did
    sweep_pc,        \* _cleanup_stale_sessions step by step: "off", "idle",
                     \* "remove" (in the loop over stale_sessions)
    sweep_stale,     \* the local list stale_sessions of the running sweep
    ctor_pc,         \* per constructing thread: position in SessionManager()
    instance,        \* how many objects super().__new__(cls) has made
    cls_lock,        \* holder of SessionManager._lock, or None
    initialized,     \* the instance has the attribute `initialized`
    cleanup_threads, \* how many cleanup threads have been started
    poll_pc,         \* monitor_process_windows: "off", "poll", "done"
    elapsed,         \* time.time() - start_time
    process,         \* the subprocess.Popen object of the single-shot executor
    poll_ret         \* what monitor_process_windows returned, or <<>>

regVars == <<sessions, locks, manager_lock, uuid_count>>

\* the fields of a SessionProcess object and of its lock
objVars == <<lock_holder, last_accessed, memory_exceeded, closed, input_queue,
             output_queue>>

\* the worker process
procVars == <<alive, wpc, rss_over, namespace>>

callVars == <<pc, loc>>

histVars == <<issued, timed_out, mem_reported, faulted, waiters>>

\* one worker process looked at statement by statement; these variables
\* stay at their initial values while the session manager is looked at
\* the owner's side of stopping the worker
termVars == <<term_pc, term_path, stubborn, stop_log>>

\* one call of safe_open
openVars == <<open_args, open_ret>>

\* the locals of _cleanup_stale_sessions
sweepVars == <<sweep_pc, sweep_stale>>

\* concurrent constructions of SessionManager
ctorVars == <<ctor_pc, instance, cls_lock, initialized, cleanup_threads>>

\* monitor_process_windows and the process it watches
pollVars == <<poll_pc, elapsed, process, poll_ret>>

unitVars == <<wf_pc, applied, bound_real, performed, exec_no, stdout_capture,
              stderr_capture, wrote_out, wrote_err, raised, put_result,
              termVars, openVars, sweepVars, ctorVars, pollVars>>

\* the session manager with its sessions, workers and callers
sysVars == <<regVars, objVars, procVars, callVars, ret, now, histVars>>

vars == <<sysVars, unitVars>>

(* ------------------------------ helpers ------------------------------- *)

\* (stdout, stderr, error, session_id) as returned by SessionManager.execute
\* to caller t, whose request carried the id req
Outcome(t, req, stdout, stderr, error, sid) ==
    [kind |-> "return", caller |-> t, req |-> req, stdout |-> stdout,
     stderr |-> stderr, error |-> error, session_id |-> sid]

\* an exception that leaves SessionManager.execute
Raised(t, req, exc) ==
    [kind |-> "raise", caller |-> t, req |-> req, stdout |-> None,
     stderr |-> None, error |-> exc, session_id |-> None]

\* no call returns in this step
NoRet ==
    [kind |-> "none", caller |-> None, req |-> None, stdout |-> None,
     stderr |-> None, error |-> None, session_id |-> None]
\* the locals of a caller outside execute; result is the empty tuple until
\* output_queue.get() has delivered one
NoLoc == [req |-> None, session_id |-> None, result |-> <<>>]

\* an id generator that repeats itself
uuid4_repeating == IdPool[1]

\* uuid.uuid4(): a value that no earlier call produced
uuid4 == IdPool[uuid_count + 1]

\* the tuples worker_function can put on the output queue: on the normal
\* path (stdout or None, stderr or None, None), on the exception path
\* (None, rendered fault, None)
WorkerResults == {<<o, e, None>> : o \in Captured, e \in Captured}

\* positions of SessionManager.execute at which the caller holds the
\* SessionProcess object and its lock object in local variables
InSession ==
    {"acquire", "blocked", "touch", "check_memory", "check_alive", "put",
     "get", "result_check", "timeout_check"}

\* some caller other than t still refers to the session object s
Referenced(s, t) ==
    \E u \in Callers \ {t} : pc[u] \in InSession /\ loc[u].session_id = s

\* the sequence q without the element x
Without(q, x) == SelectSeq(q, LAMBDA y : y # x)

\* f with the entries of S put back to the value d
Reset(f, S, d) == [s \in Ids |-> IF s \in S THEN d ELSE f[s]]

\* ExecuteResponse.check_mutual_exclusivity: the validator passes unless the
\* response has an error together with stdout or stderr
check_mutual_exclusivity(out) ==
    LET has_error == out.error # None
        has_output == out.stdout # None \/ out.stderr # None
    IN ~(has_error /\ has_output)

\* ExecuteResponse(id=..., stdout=..., stderr=..., error=...): the model
\* declares the fields stdout, stderr and error; a keyword that names no
\* declared field is ignored by the pydantic BaseModel
ExecuteResponse(id, stdout, stderr, error) ==
    [stdout |-> stdout, stderr |-> stderr, error |-> error]

\* HTTPException(status_code=500, detail="Internal server error")
HTTP_500 == [status |-> 500, body |-> [detail |-> "Internal server error"]]

\* the route execute_code applied to what SessionManager.execute returned or
\* raised
execute_code(out) ==
    IF out.kind = "raise" THEN HTTP_500
    ELSE IF out.error = "Internal server error" THEN HTTP_500
    ELSE IF ~check_mutual_exclusivity(out) THEN HTTP_500
    ELSE [status |-> 200,
          body |-> ExecuteResponse(out.session_id, out.stdout, out.stderr,
                                   out.error)]

(* ----------------------------- sandbox.py ------------------------------ *)

\* a path is the sequence of its components below the root: <<"proc",
\* "self", "status">> is /proc/self/status; ".." is the parent directory
Components == {"proc", "self", "etc", ".."}

\* the longest path looked at
MaxPath == 3

Paths == UNION {[1..n -> Components] : n \in 1..MaxPath}

\* the characters of a mode string that open() looks at, as a set
Modes == SUBSET {"r", "w", "a", "+", "b"}

\* no fault
NoFault == [type |-> "None", resource |-> <<>>]

\* PermissionError("[Errno 13] Permission denied: '<resource>'"), or
\* PermissionError("[Errno 13] Permission denied") when resource is empty
PermissionError(resource) == [type |-> "PermissionError", resource |-> resource]

\* safe_function(*args, **kwargs) of _create_safe_stub: names str(args[0])
\* when there is a positional argument, and raises in either case
safe_function(args) ==
    IF args # <<>> THEN PermissionError(Head(args)) ELSE PermissionError(<<>>)

\* filepath.startswith('/proc/')
startswith_proc(filepath) == Len(filepath) >= 2 /\ filepath[1] = "proc"

\* safe_open(file, mode): real_open for a read of a path that starts with
\* /proc/, PermissionError naming the path for everything else
safe_open(file, mode) ==
    IF /\ startswith_proc(file)
       /\ "r" \in mode /\ "w" \notin mode /\ "a" \notin mode /\ "+" \notin mode
    THEN [granted |-> TRUE, fault |-> NoFault]
    ELSE [granted |-> FALSE, fault |-> PermissionError(file)]

\* the names apply_sandbox_to_namespace rebinds to a stub: builtins.open
\* (_block_filesystem), the os functions of FILESYSTEM_BLACKLIST and the
\* socket, urllib and http entry points (_block_network); one of each kind
Denied == {"open", "os.remove", "socket.socket"}

\* what evaluated code passes to a denied primitive: nothing, or a path
ArgLists == {<<>>, <<<<"etc">>>>, <<<<"proc", "self">>>>}

(* ------------------- worker_function, in detail ------------------------ *)

\* how many codes the worker receives
MaxExec == 2

\* a piece of text written during execution n, or the rendering of a fault
\* raised during execution n
Text(n) == [type |-> "text", resource |-> <<>>, n |-> n]

\* traceback.format_exc(): the rendered description of the fault
format_exc(fault, n) == <<[type |-> fault.type, resource |-> fault.resource, n |-> n]>>

\* `x if x else None` applied to the value of a capture buffer
Absent == [none |-> TRUE, text |-> <<>>]

OrNone(text) == IF text = <<>> THEN Absent ELSE [none |-> FALSE, text |-> text]

\* no worker is looked at in detail
\* no call of safe_open is looked at
NoCall == [called |-> FALSE, granted |-> FALSE, fault |-> NoFault]

OpenOff ==
    /\ open_args = [file |-> <<>>, mode |-> {}]
    /\ open_ret = NoCall

\* _cleanup_stale_sessions is not looked at step by step
SweepOff ==
    /\ sweep_pc = "off"
    /\ sweep_stale = {}

\* threads that construct SessionManager
Ctors == {"k1", "k2"}

\* the SessionManager was constructed once, at the import of the route module
CtorOff ==
    /\ ctor_pc = [k \in Ctors |-> "off"]
    /\ instance = 1
    /\ cls_lock = None
    /\ initialized = TRUE
    /\ cleanup_threads = 1

\* no subprocess of the single-shot executor
NoProcess == [running |-> FALSE, rss_over |-> FALSE, stdout |-> EMPTY,
              stderr |-> EMPTY, killed |-> FALSE, reaped |-> FALSE]

\* the single-shot executor is not looked at
PollOff ==
    /\ poll_pc = "off"
    /\ elapsed = 0
    /\ process = NoProcess
    /\ poll_ret = <<>>

\* no worker is looked at statement by statement
WorkerOff ==
    /\ wf_pc = "off"
    /\ applied = 0
    /\ bound_real = {}
    /\ performed = {}
    /\ exec_no = 0
    /\ stdout_capture = <<>>
    /\ stderr_capture = <<>>
    /\ wrote_out = <<>>
    /\ wrote_err = <<>>
    /\ raised = NoFault
    /\ put_result = <<>>
    /\ term_pc = "off"
    /\ term_path = "off"
    /\ stubborn = FALSE
    /\ stop_log = <<>>

UnitOff ==
    /\ OpenOff
    /\ SweepOff
    /\ CtorOff
    /\ PollOff
    /\ WorkerOff

\* worker_function has just been entered in a fresh process: every
\* primitive is what the standard library defines
UnitInit ==
    /\ OpenOff
    /\ SweepOff
    /\ CtorOff
    /\ PollOff
    /\ wf_pc = "boot"
    /\ applied = 0
    /\ bound_real = Denied
    /\ performed = {}
    /\ exec_no = 0
    /\ stdout_capture = <<>>
    /\ stderr_capture = <<>>
    /\ wrote_out = <<>>
    /\ wrote_err = <<>>
    /\ raised = NoFault
    /\ put_result = <<>>
    /\ term_pc = "idle"
    /\ term_path = "off"
    /\ stubborn \in BOOLEAN
    /\ stop_log = <<>>

\* `interpreter = InteractiveInterpreter()` and
\* `apply_sandbox_to_namespace(interpreter.locals)`, before the loop
Boot ==
    /\ wf_pc = "boot"
    /\ applied' = applied + 1
    /\ bound_real' = bound_real \ Denied
    /\ wf_pc' = "recv"
    /\ UNCHANGED <<performed, exec_no, stdout_capture, stderr_capture,
                   wrote_out, wrote_err, raised, put_result>>
    /\ UNCHANGED <<sysVars, openVars, sweepVars, ctorVars, pollVars>>
    /\ UNCHANGED <<termVars>>

\* the loop entry that keeps the capture buffers of the execution before
Receive_keeps_buffers ==
    /\ wf_pc = "recv"
    /\ exec_no < MaxExec
    /\ exec_no' = exec_no + 1
    /\ wrote_out' = <<>>
    /\ wrote_err' = <<>>
    /\ raised' = NoFault
    /\ wf_pc' = "exec"
    /\ UNCHANGED <<applied, bound_real, performed, stdout_capture,
                   stderr_capture, put_result>>
    /\ UNCHANGED <<sysVars, openVars, sweepVars, ctorVars, pollVars>>
    /\ UNCHANGED <<termVars>>

\* `code = input_queue.get()`, then two fresh StringIO objects take the
\* place of sys.stdout and sys.stderr
Receive ==
    /\ wf_pc = "recv"
    /\ exec_no < MaxExec
    /\ exec_no' = exec_no + 1
    /\ stdout_capture' = <<>>
    /\ stderr_capture' = <<>>
    /\ wrote_out' = <<>>
    /\ wrote_err' = <<>>
    /\ raised' = NoFault
    /\ wf_pc' = "exec"
    /\ UNCHANGED <<applied, bound_real, performed, put_result>>
    /\ UNCHANGED <<sysVars, openVars, sweepVars, ctorVars, pollVars>>
    /\ UNCHANGED <<termVars>>

\* the code writes to sys.stdout (print)
ExecWriteOut ==
    /\ wf_pc = "exec"
    /\ wrote_out = <<>>
    /\ stdout_capture' = Append(stdout_capture, Text(exec_no))
    /\ wrote_out' = Append(wrote_out, Text(exec_no))
    /\ UNCHANGED <<wf_pc, applied, bound_real, performed, exec_no,
                   stderr_capture, wrote_err, raised, put_result>>
    /\ UNCHANGED <<sysVars, openVars, sweepVars, ctorVars, pollVars>>
    /\ UNCHANGED <<termVars>>

\* the code writes to sys.stderr
ExecWriteErr ==
    /\ wf_pc = "exec"
    /\ wrote_err = <<>>
    /\ stderr_capture' = Append(stderr_capture, Text(exec_no))
    /\ wrote_err' = Append(wrote_err, Text(exec_no))
    /\ UNCHANGED <<wf_pc, applied, bound_real, performed, exec_no,
                   stdout_capture, wrote_out, raised, put_result>>
    /\ UNCHANGED <<sysVars, openVars, sweepVars, ctorVars, pollVars>>
    /\ UNCHANGED <<termVars>>

\* `except Exception as e`: stderr_output is what stderr captured or, when
\* that is empty, traceback.format_exc(); `output_queue.put((None,
\* stderr_output, None))`; back to the head of the loop
Handler(fault) ==
    /\ raised' = fault
    /\ put_result' =
          <<Absent,
            OrNone(IF stderr_capture # <<>> THEN stderr_capture
                   ELSE format_exc(fault, exec_no)),
            None>>
    /\ wf_pc' = "recv"

\* the code calls a denied primitive by its name: the stub raises, unless
\* the name is bound to the real implementation, which then does its work
ExecCall ==
    /\ wf_pc = "exec"
    /\ \E prim \in Denied, args \in ArgLists :
          IF prim \in bound_real
          THEN /\ performed' = performed \cup {prim}
               /\ UNCHANGED <<wf_pc, raised, put_result>>
          ELSE IF prim = "open"
          THEN /\ args # <<>>
               /\ ~safe_open(Head(args), {"r"}).granted
               /\ Handler(safe_open(Head(args), {"r"}).fault)
               /\ UNCHANGED performed
          ELSE /\ Handler(safe_function(args))
               /\ UNCHANGED performed
    /\ UNCHANGED <<applied, bound_real, exec_no, stdout_capture, stderr_capture,
                   wrote_out, wrote_err>>
    /\ UNCHANGED <<sysVars, openVars, sweepVars, ctorVars, pollVars>>
    /\ UNCHANGED <<termVars>>

\* the code raises some other Exception (ZeroDivisionError, NameError, ...)
ExecRaise ==
    /\ wf_pc = "exec"
    /\ Handler([type |-> "Exception", resource |-> <<>>])
    /\ UNCHANGED <<applied, bound_real, performed, exec_no, stdout_capture,
                   stderr_capture, wrote_out, wrote_err>>
    /\ UNCHANGED <<sysVars, openVars, sweepVars, ctorVars, pollVars>>
    /\ UNCHANGED <<termVars>>

\* the code binds a denied name to the real implementation again: the stubs
\* are attributes of the modules os, socket and builtins, which the code
\* can assign (`os.remove = posix.remove`) or reload (importlib.reload(os))
ExecRebind ==
    /\ wf_pc = "exec"
    /\ \E prim \in Denied \ bound_real : bound_real' = bound_real \cup {prim}
    /\ UNCHANGED <<wf_pc, applied, performed, exec_no, stdout_capture,
                   stderr_capture, wrote_out, wrote_err, raised, put_result>>
    /\ UNCHANGED <<sysVars, openVars, sweepVars, ctorVars, pollVars>>
    /\ UNCHANGED <<termVars>>

\* exec returns: `output_queue.put((stdout_result, stderr_result, None))`
ExecFinish ==
    /\ wf_pc = "exec"
    /\ put_result' = <<OrNone(stdout_capture), OrNone(stderr_capture), None>>
    /\ wf_pc' = "recv"
    /\ UNCHANGED <<applied, bound_real, performed, exec_no, stdout_capture,
                   stderr_capture, wrote_out, wrote_err, raised>>
    /\ UNCHANGED <<sysVars, openVars, sweepVars, ctorVars, pollVars>>
    /\ UNCHANGED <<termVars>>

(* --------------------- stopping the worker process --------------------- *)

\* the worker process is alive
is_alive == wf_pc \notin {"dead", "off"}

\* where the owner goes when the stopping itself is over: terminate() still
\* closes the queues, the Empty handler is done
AfterStop == IF term_path = "terminate" THEN "close" ELSE "done"

workerVars == <<wf_pc, applied, bound_real, performed, exec_no, stdout_capture,
                stderr_capture, wrote_out, wrote_err, raised, put_result>>

\* the owner starts to stop the worker: the sweep calls session.terminate(),
\* or output_queue.get() has raised Empty in SessionProcess.execute
StopBegin ==
    /\ term_pc = "idle"
    /\ \E path \in {"terminate", "timeout"} :
          /\ term_path' = path
          /\ term_pc' = IF path = "terminate" THEN "is_alive" ELSE "terminate"
    /\ UNCHANGED <<sysVars, openVars, sweepVars, ctorVars, pollVars>>
    /\ UNCHANGED <<workerVars, stubborn, stop_log>>

\* terminate(): `if self.process.is_alive():`
StopIsAlive ==
    /\ term_pc = "is_alive"
    /\ IF is_alive
       THEN /\ term_pc' = "terminate"
            /\ UNCHANGED stop_log
       ELSE /\ term_pc' = AfterStop
            /\ stop_log' = Append(stop_log, "dead")
    /\ UNCHANGED <<sysVars, openVars, sweepVars, ctorVars, pollVars>>
    /\ UNCHANGED <<workerVars, term_path, stubborn>>

\* `self.process.terminate()`: SIGTERM, the graceful stop
StopTerminate ==
    /\ term_pc = "terminate"
    /\ stop_log' = Append(stop_log, "terminate")
    /\ term_pc' = "join"
    /\ UNCHANGED <<sysVars, openVars, sweepVars, ctorVars, pollVars>>
    /\ UNCHANGED <<workerVars, term_path, stubborn>>

\* the worker process exits on the SIGTERM it has been sent
ProcExit ==
    /\ is_alive
    /\ ~stubborn
    /\ \E i \in 1..Len(stop_log) : stop_log[i] = "terminate"
    /\ wf_pc' = "dead"
    /\ UNCHANGED <<sysVars, openVars, sweepVars, ctorVars, pollVars>>
    /\ UNCHANGED <<applied, bound_real, performed, exec_no,
                   stdout_capture, stderr_capture, wrote_out, wrote_err,
                   raised, put_result, termVars>>

\* `self.process.join(timeout=1)` returns: the process has exited, or the
\* second of grace is over
StopJoin ==
    /\ term_pc = "join"
    /\ stop_log' = Append(stop_log, "join")
    /\ term_pc' = "recheck"
    /\ UNCHANGED <<sysVars, openVars, sweepVars, ctorVars, pollVars>>
    /\ UNCHANGED <<workerVars, term_path, stubborn>>

\* the second is_alive() replaced by an unconditional kill
StopRecheck_always_kill ==
    /\ term_pc = "recheck"
    /\ term_pc' = "kill"
    /\ UNCHANGED <<sysVars, openVars, sweepVars, ctorVars, pollVars>>
    /\ UNCHANGED <<workerVars, term_path, stubborn, stop_log>>

\* `if self.process.is_alive():` after the join
StopRecheck ==
    /\ term_pc = "recheck"
    /\ IF is_alive
       THEN /\ term_pc' = "kill"
            /\ stop_log' = Append(stop_log, "alive")
       ELSE /\ term_pc' = AfterStop
            /\ stop_log' = Append(stop_log, "dead")
    /\ UNCHANGED <<sysVars, openVars, sweepVars, ctorVars, pollVars>>
    /\ UNCHANGED <<workerVars, term_path, stubborn>>

\* `self.process.kill()`: SIGKILL, the forced kill
StopKill ==
    /\ term_pc = "kill"
    /\ stop_log' = Append(stop_log, "kill")
    /\ wf_pc' = "dead"
    /\ term_pc' = AfterStop
    /\ UNCHANGED <<sysVars, openVars, sweepVars, ctorVars, pollVars>>
    /\ UNCHANGED <<applied, bound_real, performed, exec_no,
                   stdout_capture, stderr_capture, wrote_out, wrote_err,
                   raised, put_result, term_path, stubborn>>

\* terminate(): `self.input_queue.close(); self.output_queue.close()`
StopClose ==
    /\ term_pc = "close"
    /\ term_pc' = "done"
    /\ UNCHANGED <<sysVars, openVars, sweepVars, ctorVars, pollVars>>
    /\ UNCHANGED <<workerVars, term_path, stubborn, stop_log>>

(* ------------------------------- Init --------------------------------- *)

\* the session manager after SessionManager.__init__: nothing registered
SysInit ==
    /\ sessions = {}
    /\ locks = {}
    /\ manager_lock = None
    /\ uuid_count = 0
    /\ lock_holder = [s \in Ids |-> None]
    /\ last_accessed = [s \in Ids |-> 0]
    /\ memory_exceeded = [s \in Ids |-> FALSE]
    /\ closed = [s \in Ids |-> FALSE]
    /\ input_queue = [s \in Ids |-> <<>>]
    /\ output_queue = [s \in Ids |-> <<>>]
    /\ alive = [s \in Ids |-> FALSE]
    /\ wpc = [s \in Ids |-> "dead"]
    /\ rss_over = [s \in Ids |-> FALSE]
    /\ namespace = [s \in Ids |-> {}]
    /\ pc = [t \in Callers |-> "idle"]
    /\ loc = [t \in Callers |-> NoLoc]
    /\ ret = NoRet
    /\ now = 0
    /\ issued = {}
    /\ timed_out = {}
    /\ mem_reported = {}
    /\ faulted = {}
    /\ waiters = [s \in Ids |-> <<>>]

Init ==
    /\ SysInit
    /\ UnitOff

(* ------------------- SessionManager.execute (callers) ------------------ *)

\* `return` of SessionManager.execute, or an exception leaving it
Return(t, out) ==
    /\ pc' = [pc EXCEPT ![t] = "idle"]
    /\ ret' = out
    /\ UNCHANGED unitVars
    /\ loc' = [loc EXCEPT ![t] = NoLoc]
    /\ issued' = issued \cup ({out.session_id} \cap Ids)

\* a SessionProcess that the registry has dropped and that no caller refers
\* to any more is garbage: the objects in S cease to exist
Forget(S) ==
    /\ last_accessed' = Reset(last_accessed, S, 0)
    /\ memory_exceeded' = Reset(memory_exceeded, S, FALSE)
    /\ closed' = Reset(closed, S, FALSE)
    /\ input_queue' = Reset(input_queue, S, <<>>)
    /\ output_queue' = Reset(output_queue, S, <<>>)

\* the return inside `with session_lock` handing back the empty string in
\* place of the session id
SessionReturn_no_id(t, stdout, stderr, error) ==
    LET s == loc[t].session_id
        G == IF s \notin sessions /\ ~Referenced(s, t) THEN {s} ELSE {}
    IN
    /\ Return(t, Outcome(t, loc[t].req, stdout, stderr, error, EMPTY))
    /\ lock_holder' = [lock_holder EXCEPT ![s] = None]
    /\ Forget(G)
    /\ timed_out' = (IF error = "execution timeout" THEN timed_out \cup {s}
                     ELSE timed_out) \ G
    /\ mem_reported' = (IF error = "memory limit exceeded" THEN mem_reported \cup {s}
                        ELSE mem_reported) \ G
    /\ faulted' = faulted \ {s}
    /\ UNCHANGED waiters

\* `return stdout, stderr, error, session_id` inside `with session_lock`:
\* the outcome of SessionProcess.execute goes back, the lock is released and
\* the caller's references to the session are dropped
SessionReturn(t, stdout, stderr, error) ==
    LET s == loc[t].session_id
        G == IF s \notin sessions /\ ~Referenced(s, t) THEN {s} ELSE {}
    IN
    /\ Return(t, Outcome(t, loc[t].req, stdout, stderr, error, s))
    /\ lock_holder' = [lock_holder EXCEPT ![s] = None]
    /\ Forget(G)
    /\ timed_out' = (IF error = "execution timeout" THEN timed_out \cup {s}
                     ELSE timed_out) \ G
    /\ mem_reported' = (IF error = "memory limit exceeded" THEN mem_reported \cup {s}
                        ELSE mem_reported) \ G
    /\ faulted' = faulted \ {s}
    /\ UNCHANGED waiters

\* callers inside _create_session or about to enter it
Creating == {u \in Callers : pc[u] \in {"create", "store"}}

\* a request arrives: execute(code, session_id) is called; a caller can
\* supply an id that an earlier call returned, or one that never existed
Call(t) ==
    /\ pc[t] = "idle"
    /\ \E sid \in issued \cup {BOGUS, None} :
          /\ sid = None => uuid_count + Cardinality(Creating) < NumIds
          /\ loc' = [loc EXCEPT ![t] = [req |-> sid, session_id |-> sid,
                                        result |-> <<>>]]
          /\ pc' = [pc EXCEPT ![t] = IF sid = None THEN "create" ELSE "lookup"]
    /\ ret' = NoRet
    /\ UNCHANGED unitVars
    /\ UNCHANGED <<regVars, objVars, procVars, now, histVars>>

\* the cap check of _create_session entered without waiting for the manager
\* lock: what _create_session would be without `with self.manager_lock`
CreateCheck_unlocked(t) ==
    /\ pc[t] = "create"
    /\ IF Cardinality(sessions) >= MAX_SESSIONS
       THEN /\ Return(t, Outcome(t, None, None, None, "max sessions reached", EMPTY))
            /\ UNCHANGED manager_lock
       ELSE /\ manager_lock' = t
            /\ pc' = [pc EXCEPT ![t] = "store"]
            /\ ret' = NoRet
            /\ UNCHANGED unitVars
            /\ UNCHANGED <<loc, issued>>
    /\ UNCHANGED <<sessions, locks, uuid_count, objVars, procVars, now, timed_out,
                   mem_reported, faulted, waiters>>

\* _create_session: `with self.manager_lock` and the cap check
CreateCheck(t) ==
    /\ pc[t] = "create"
    /\ manager_lock = None
    /\ IF Cardinality(sessions) >= MAX_SESSIONS
       THEN /\ Return(t, Outcome(t, None, None, None, "max sessions reached", EMPTY))
            /\ UNCHANGED manager_lock
       ELSE /\ manager_lock' = t
            /\ pc' = [pc EXCEPT ![t] = "store"]
            /\ ret' = NoRet
            /\ UNCHANGED unitVars
            /\ UNCHANGED <<loc, issued>>
    /\ UNCHANGED <<sessions, locks, uuid_count, objVars, procVars, now, timed_out,
                   mem_reported, faulted, waiters>>

\* _create_session that returns with the manager lock still held: what the
\* call would hold on to if the execution ran inside `with self.manager_lock`
CreateStore_keeps_lock(t) ==
    /\ pc[t] = "store"
    /\ LET s == uuid4 IN
       /\ uuid_count' = uuid_count + 1
       /\ last_accessed' = [last_accessed EXCEPT ![s] = now]
       /\ memory_exceeded' = [memory_exceeded EXCEPT ![s] = FALSE]
       /\ alive' = [alive EXCEPT ![s] = TRUE]
       /\ wpc' = [wpc EXCEPT ![s] = "recv"]
       /\ sessions' = sessions \cup {s}
       /\ locks' = locks \cup {s}
       /\ loc' = [loc EXCEPT ![t].session_id = s]
    /\ pc' = [pc EXCEPT ![t] = "lookup"]
    /\ ret' = NoRet
    /\ UNCHANGED unitVars
    /\ UNCHANGED <<manager_lock, lock_holder, closed, input_queue, output_queue,
                   rss_over, namespace, now, histVars>>

\* _create_session: uuid4, SessionProcess() (queues, worker process, monitor
\* thread), the two dictionary stores and the release of the manager lock
CreateStore(t) ==
    /\ pc[t] = "store"
    /\ LET s == uuid4 IN
       /\ uuid_count' = uuid_count + 1
       /\ last_accessed' = [last_accessed EXCEPT ![s] = now]
       /\ memory_exceeded' = [memory_exceeded EXCEPT ![s] = FALSE]
       /\ alive' = [alive EXCEPT ![s] = TRUE]
       /\ wpc' = [wpc EXCEPT ![s] = "recv"]
       /\ sessions' = sessions \cup {s}
       /\ locks' = locks \cup {s}
       /\ loc' = [loc EXCEPT ![t].session_id = s]
    /\ manager_lock' = None
    /\ pc' = [pc EXCEPT ![t] = "lookup"]
    /\ ret' = NoRet
    /\ UNCHANGED unitVars
    /\ UNCHANGED <<lock_holder, closed, input_queue, output_queue, rss_over,
                   namespace, now, histVars>>

\* the registry check returning None as id instead of the supplied one
Lookup_no_echo(t) ==
    /\ pc[t] = "lookup"
    /\ IF loc[t].session_id \notin sessions
       THEN Return(t, Outcome(t, loc[t].req, None, None, "session not found", None))
       ELSE /\ pc' = [pc EXCEPT ![t] = "fetch"]
            /\ ret' = NoRet
            /\ UNCHANGED unitVars
            /\ UNCHANGED <<loc, issued>>
    /\ UNCHANGED <<regVars, objVars, procVars, now, timed_out, mem_reported, faulted, waiters>>

\* `if session_id not in self.sessions: return ... "session not found"`
Lookup(t) ==
    /\ pc[t] = "lookup"
    /\ IF loc[t].session_id \notin sessions
       THEN Return(t, Outcome(t, loc[t].req, None, None, "session not found",
                              loc[t].session_id))
       ELSE /\ pc' = [pc EXCEPT ![t] = "fetch"]
            /\ ret' = NoRet
            /\ UNCHANGED unitVars
            /\ UNCHANGED <<loc, issued>>
    /\ UNCHANGED <<regVars, objVars, procVars, now, timed_out, mem_reported, faulted, waiters>>

\* `session = self.sessions[session_id]; session_lock = self.locks[session_id]`
\* a key the sweep has deleted since the lookup raises KeyError
Fetch(t) ==
    /\ pc[t] = "fetch"
    /\ IF loc[t].session_id \in sessions /\ loc[t].session_id \in locks
       THEN /\ pc' = [pc EXCEPT ![t] = "acquire"]
            /\ ret' = NoRet
            /\ UNCHANGED unitVars
            /\ UNCHANGED <<loc, issued>>
       ELSE Return(t, Raised(t, loc[t].req, "KeyError"))
    /\ UNCHANGED <<regVars, objVars, procVars, now, timed_out, mem_reported, faulted, waiters>>

\* the `with session_lock:` entered without waiting for the lock
Acquire_nonblocking(t) ==
    /\ pc[t] \in {"acquire", "blocked"}
    /\ lock_holder' = [lock_holder EXCEPT ![loc[t].session_id] = t]
    /\ waiters' = [waiters EXCEPT ![loc[t].session_id] = Without(@, t)]
    /\ pc' = [pc EXCEPT ![t] = "touch"]
    /\ ret' = NoRet
    /\ UNCHANGED unitVars
    /\ UNCHANGED <<regVars, last_accessed, memory_exceeded, closed, input_queue,
                   output_queue, procVars, loc, now, issued, timed_out,
                   mem_reported, faulted>>

\* `with session_lock:` finds the lock held: the thread blocks in acquire()
Block(t) ==
    /\ pc[t] = "acquire"
    /\ lock_holder[loc[t].session_id] # None
    /\ waiters' = [waiters EXCEPT ![loc[t].session_id] = Append(@, t)]
    /\ pc' = [pc EXCEPT ![t] = "blocked"]
    /\ ret' = NoRet
    /\ UNCHANGED unitVars
    /\ UNCHANGED <<regVars, objVars, procVars, loc, now, issued, timed_out,
                   mem_reported, faulted>>

\* `with session_lock:` takes the lock when it is free. threading.Lock keeps
\* no queue: a thread arriving at a free lock takes it at once, whoever is
\* still blocked, and which blocked thread proceeds after a release is not
\* defined
Acquire(t) ==
    /\ pc[t] \in {"acquire", "blocked"}
    /\ lock_holder[loc[t].session_id] = None
    /\ lock_holder' = [lock_holder EXCEPT ![loc[t].session_id] = t]
    /\ waiters' = [waiters EXCEPT ![loc[t].session_id] = Without(@, t)]
    /\ pc' = [pc EXCEPT ![t] = "touch"]
    /\ ret' = NoRet
    /\ UNCHANGED unitVars
    /\ UNCHANGED <<regVars, last_accessed, memory_exceeded, closed, input_queue,
                   output_queue, procVars, loc, now, issued, timed_out,
                   mem_reported, faulted>>

\* `session.last_accessed = time.time()`
Touch(t) ==
    /\ pc[t] = "touch"
    /\ last_accessed' = [last_accessed EXCEPT ![loc[t].session_id] = now]
    /\ pc' = [pc EXCEPT ![t] = "check_memory"]
    /\ ret' = NoRet
    /\ UNCHANGED unitVars
    /\ UNCHANGED <<regVars, lock_holder, memory_exceeded, closed, input_queue,
                   output_queue, procVars, loc, now, histVars>>

(* --------------------- SessionProcess.execute -------------------------- *)

\* the worker process of session s ends: it runs no code, holds no memory
\* and its interpreter.locals is gone
ProcessDies(s) ==
    /\ alive' = [alive EXCEPT ![s] = FALSE]
    /\ wpc' = [wpc EXCEPT ![s] = "dead"]
    /\ rss_over' = [rss_over EXCEPT ![s] = FALSE]
    /\ namespace' = [namespace EXCEPT ![s] = {}]

\* the caller goes on to the statement at `next`
Goto(t, next) ==
    /\ pc' = [pc EXCEPT ![t] = next]
    /\ ret' = NoRet
    /\ UNCHANGED unitVars
    /\ UNCHANGED <<objVars, loc, histVars>>

\* `if self.memory_exceeded: return None, None, "memory limit exceeded"`
CheckMemory(t) ==
    /\ pc[t] = "check_memory"
    /\ IF memory_exceeded[loc[t].session_id]
       THEN SessionReturn(t, None, None, "memory limit exceeded")
       ELSE Goto(t, "check_alive")
    /\ UNCHANGED <<regVars, procVars, now>>

\* an is_alive check that starts a fresh worker process for the session
\* instead of reporting the crash
CheckAlive_respawn(t) ==
    LET s == loc[t].session_id IN
    /\ pc[t] = "check_alive"
    /\ alive' = [alive EXCEPT ![s] = TRUE]
    /\ wpc' = [wpc EXCEPT ![s] = "recv"]
    /\ Goto(t, "put")
    /\ UNCHANGED <<regVars, rss_over, namespace, now>>

\* `if not self.process.is_alive(): return None, None, "session crashed"`
CheckAlive(t) ==
    /\ pc[t] = "check_alive"
    /\ IF ~alive[loc[t].session_id]
       THEN SessionReturn(t, None, None, "session crashed")
       ELSE Goto(t, "put")
    /\ UNCHANGED <<regVars, procVars, now>>

\* `self.input_queue.put(code)`; a closed queue raises ValueError, which the
\* outer `except Exception` turns into "Internal server error"
Put(t) ==
    LET s == loc[t].session_id IN
    /\ pc[t] = "put"
    /\ IF closed[s]
       THEN SessionReturn(t, None, None, "Internal server error")
       ELSE /\ input_queue' = [input_queue EXCEPT ![s] = Append(@, CODE)]
            /\ pc' = [pc EXCEPT ![t] = "get"]
            /\ ret' = NoRet
            /\ UNCHANGED unitVars
            /\ UNCHANGED <<lock_holder, last_accessed, memory_exceeded, closed,
                           output_queue, loc, histVars>>
    /\ UNCHANGED <<regVars, procVars, now>>

\* `result = self.output_queue.get(timeout=...)` delivers a result
GetResult(t) ==
    LET s == loc[t].session_id IN
    /\ pc[t] = "get"
    /\ ~closed[s]
    /\ output_queue[s] # <<>>
    /\ loc' = [loc EXCEPT ![t].result = Head(output_queue[s])]
    /\ output_queue' = [output_queue EXCEPT ![s] = Tail(@)]
    /\ pc' = [pc EXCEPT ![t] = "result_check"]
    /\ ret' = NoRet
    /\ UNCHANGED unitVars
    /\ UNCHANGED <<regVars, lock_holder, last_accessed, memory_exceeded, closed,
                   input_queue, procVars, now, histVars>>

\* get() on a queue that terminate() has closed raises ValueError or OSError:
\* not Empty, so it is re-raised and becomes "Internal server error"
GetClosed(t) ==
    /\ pc[t] = "get"
    /\ closed[loc[t].session_id]
    /\ SessionReturn(t, None, None, "Internal server error")
    /\ UNCHANGED <<regVars, procVars, now>>

\* the Empty handler without terminate(), join() and kill()
GetTimeout_no_kill(t) ==
    LET s == loc[t].session_id IN
    /\ pc[t] = "get"
    /\ output_queue[s] = <<>>
    /\ Goto(t, "timeout_check")
    /\ UNCHANGED <<regVars, procVars, now>>

\* get() raises Empty after TIMEOUT_SECONDS without a result; the handler
\* runs process.terminate(), join(timeout=1) and, if still alive, kill()
GetTimeout(t) ==
    LET s == loc[t].session_id IN
    /\ pc[t] = "get"
    /\ output_queue[s] = <<>>
    /\ ProcessDies(s)
    /\ Goto(t, "timeout_check")
    /\ UNCHANGED <<regVars, now>>

\* the result path without the look at the flag
ResultCheck_no_flag(t) ==
    LET r == loc[t].result IN
    /\ pc[t] = "result_check"
    /\ SessionReturn(t, r[1], r[2], r[3])
    /\ UNCHANGED <<regVars, procVars, now>>

\* the result path reporting the memory violation next to the output received
ResultCheck_keeps_output(t) ==
    LET s == loc[t].session_id
        r == loc[t].result IN
    /\ pc[t] = "result_check"
    /\ IF memory_exceeded[s]
       THEN SessionReturn(t, r[1], r[2], "memory limit exceeded")
       ELSE SessionReturn(t, r[1], r[2], r[3])
    /\ UNCHANGED <<regVars, procVars, now>>

\* after time.sleep(0.05): `if self.memory_exceeded: return ... "memory limit
\* exceeded"`, else `return stdout, stderr, error`
ResultCheck(t) ==
    LET s == loc[t].session_id
        r == loc[t].result IN
    /\ pc[t] = "result_check"
    /\ IF memory_exceeded[s]
       THEN SessionReturn(t, None, None, "memory limit exceeded")
       ELSE SessionReturn(t, r[1], r[2], r[3])
    /\ UNCHANGED <<regVars, procVars, now>>

\* the timeout path without the look at the flag
TimeoutCheck_no_flag(t) ==
    /\ pc[t] = "timeout_check"
    /\ SessionReturn(t, None, None, "execution timeout")
    /\ UNCHANGED <<regVars, procVars, now>>

\* after the kill: `if self.memory_exceeded: return ... "memory limit
\* exceeded"`, else `return None, None, "execution timeout"`
TimeoutCheck(t) ==
    /\ pc[t] = "timeout_check"
    /\ IF memory_exceeded[loc[t].session_id]
       THEN SessionReturn(t, None, None, "memory limit exceeded")
       ELSE SessionReturn(t, None, None, "execution timeout")
    /\ UNCHANGED <<regVars, procVars, now>>

(* --------------------------- worker_function --------------------------- *)
(* exec(code, interpreter.locals) runs arbitrary code: it can allocate     *)
(* memory above the ceiling, bind names, end normally, raise a fault, or   *)
(* run forever.  Each is a step the running worker can or                  *)
(* cannot take; which code was sent decides it.                            *)

\* `code = input_queue.get()`
WorkerGet(s) ==
    /\ alive[s]
    /\ wpc[s] = "recv"
    /\ input_queue[s] # <<>>
    /\ wpc' = [wpc EXCEPT ![s] = "exec"]
    /\ input_queue' = [input_queue EXCEPT ![s] = Tail(@)]
    /\ ret' = NoRet
    /\ UNCHANGED unitVars
    /\ UNCHANGED <<regVars, lock_holder, last_accessed, memory_exceeded, closed,
                   output_queue, alive, rss_over, namespace, callVars, now,
                   histVars>>

\* the running code binds more memory than the ceiling; the binding lives
\* in the persistent namespace, so the memory stays resident
WorkerAlloc(s) ==
    /\ alive[s]
    /\ wpc[s] = "exec"
    /\ ~rss_over[s]
    /\ rss_over' = [rss_over EXCEPT ![s] = TRUE]
    /\ ret' = NoRet
    /\ UNCHANGED unitVars
    /\ UNCHANGED <<regVars, objVars, alive, wpc, namespace, callVars, now,
                   histVars>>

\* a binding made for every live worker instead of the one running the code
WorkerBind_shared(s) ==
    /\ alive[s]
    /\ wpc[s] = "exec"
    /\ s \notin namespace[s]
    /\ namespace' = [b \in Ids |-> IF alive[b] THEN namespace[b] \cup {s}
                                   ELSE namespace[b]]
    /\ ret' = NoRet
    /\ UNCHANGED unitVars
    /\ UNCHANGED <<regVars, objVars, alive, wpc, rss_over, callVars, now,
                   histVars>>

\* the running code binds a name (variable, import, function, class) in
\* interpreter.locals, the namespace every exec of this worker runs in
WorkerBind(s) ==
    /\ alive[s]
    /\ wpc[s] = "exec"
    /\ s \notin namespace[s]
    /\ namespace' = [namespace EXCEPT ![s] = @ \cup {s}]
    /\ ret' = NoRet
    /\ UNCHANGED unitVars
    /\ UNCHANGED <<regVars, objVars, alive, wpc, rss_over, callVars, now,
                   histVars>>

\* exec ends normally and `output_queue.put((stdout_result, stderr_result,
\* None))` sends the result
WorkerFinish(s) ==
    /\ alive[s]
    /\ wpc[s] = "exec"
    /\ \E r \in WorkerResults :
          output_queue' = [output_queue EXCEPT ![s] = Append(@, r)]
    /\ wpc' = [wpc EXCEPT ![s] = "recv"]
    /\ ret' = NoRet
    /\ UNCHANGED unitVars
    /\ UNCHANGED <<regVars, lock_holder, last_accessed, memory_exceeded, closed,
                   input_queue, alive, rss_over, namespace, callVars, now,
                   histVars>>

\* the running code raises an Exception: the handler of line 166 renders it
\* as stderr text (what stderr captured or, failing that, the traceback) and
\* `output_queue.put((None, stderr_output, None))` sends it; the loop goes on
WorkerRaise(s) ==
    /\ alive[s]
    /\ wpc[s] = "exec"
    /\ output_queue' = [output_queue EXCEPT ![s] = Append(@, <<None, "text", None>>)]
    /\ wpc' = [wpc EXCEPT ![s] = "recv"]
    /\ faulted' = faulted \cup {s}
    /\ ret' = NoRet
    /\ UNCHANGED unitVars
    /\ UNCHANGED <<regVars, lock_holder, last_accessed, memory_exceeded, closed,
                   input_queue, alive, rss_over, namespace, callVars, now,
                   issued, timed_out, mem_reported, waiters>>

\* the running code raises a BaseException that is no Exception (SystemExit,
\* KeyboardInterrupt, BaseException itself): neither `except Exception` of
\* worker_function catches it, it leaves worker_function and the process ends
WorkerExit(s) ==
    /\ alive[s]
    /\ wpc[s] = "exec"
    /\ ProcessDies(s)
    /\ faulted' = faulted \cup {s}
    /\ ret' = NoRet
    /\ UNCHANGED unitVars
    /\ UNCHANGED <<regVars, objVars, callVars, now, issued, timed_out,
                   mem_reported, waiters>>

(* ------------------------ monitor thread ------------------------------- *)

\* on_memory_exceeded() writing a flag that all SessionProcess objects share
on_memory_exceeded_shared(s) ==
    memory_exceeded' = [u \in Ids |-> TRUE]

\* on_memory_exceeded(): `self.memory_exceeded = True`
on_memory_exceeded(s) ==
    memory_exceeded' = [memory_exceeded EXCEPT ![s] = TRUE]

\* monitor_process(process, limit, on_memory_exceeded): a sample of the
\* worker's resident memory is above the ceiling; the monitor sets the flag
\* through the callback and kills the worker
Monitor(s) ==
    /\ alive[s]
    /\ rss_over[s]
    /\ on_memory_exceeded(s)
    /\ ProcessDies(s)
    /\ ret' = NoRet
    /\ UNCHANGED unitVars
    /\ UNCHANGED <<regVars, lock_holder, last_accessed, closed, input_queue,
                   output_queue, callVars, now, histVars>>

(* ------------------------ cleanup thread ------------------------------- *)

\* the list comprehension of _cleanup_stale_sessions
stale_sessions == {s \in sessions : now - last_accessed[s] > IDLE_TIMEOUT_SECONDS}

\* sessions that some caller holds in its local variables
InUse == {s \in Ids : \E u \in Callers : pc[u] \in InSession /\ loc[u].session_id = s}

\* _remove_session that terminates the sessions in S and closes their
\* queues but leaves the two dictionary entries in place
RemoveAll_keeps_entry(S) ==
    /\ alive' = Reset(alive, S, FALSE)
    /\ wpc' = Reset(wpc, S, "dead")
    /\ rss_over' = Reset(rss_over, S, FALSE)
    /\ namespace' = Reset(namespace, S, {})
    /\ closed' = Reset(closed, S, TRUE)
    /\ UNCHANGED <<sessions, locks, last_accessed, memory_exceeded, input_queue,
                   output_queue, histVars>>

\* _remove_session that deletes the two dictionary entries of the sessions
\* in S without session.terminate()
RemoveAll_no_terminate(S) ==
    /\ sessions' = sessions \ S
    /\ locks' = locks \ S
    /\ UNCHANGED <<objVars, procVars, histVars>>

\* _remove_session(sid) for every sid in S: session.terminate() stops the
\* worker and closes both queues, then the two dictionary entries go
RemoveAll(S) ==
    /\ alive' = Reset(alive, S, FALSE)
    /\ wpc' = Reset(wpc, S, "dead")
    /\ rss_over' = Reset(rss_over, S, FALSE)
    /\ namespace' = Reset(namespace, S, {})
    /\ sessions' = sessions \ S
    /\ locks' = locks \ S
    /\ closed' = Reset(Reset(closed, S, TRUE), S \ InUse, FALSE)
    /\ last_accessed' = Reset(last_accessed, S \ InUse, 0)
    /\ memory_exceeded' = Reset(memory_exceeded, S \ InUse, FALSE)
    /\ input_queue' = Reset(input_queue, S \ InUse, <<>>)
    /\ output_queue' = Reset(output_queue, S \ InUse, <<>>)
    /\ timed_out' = timed_out \ (S \ InUse)
    /\ mem_reported' = mem_reported \ (S \ InUse)
    /\ faulted' = faulted \ (S \ InUse)
    /\ UNCHANGED waiters

\* one round of _cleanup_loop: _cleanup_stale_sessions, whose body runs under
\* the manager lock from the list comprehension to the last _remove_session
Sweep ==
    /\ manager_lock = None
    /\ stale_sessions # {}
    /\ RemoveAll(stale_sessions)
    /\ ret' = NoRet
    /\ UNCHANGED unitVars
    /\ UNCHANGED <<manager_lock, uuid_count, lock_holder, callVars, now, issued>>

\* the clock advances
Tick ==
    /\ now < MaxTime
    /\ now' = now + 1
    /\ ret' = NoRet
    /\ UNCHANGED unitVars
    /\ UNCHANGED <<regVars, objVars, procVars, callVars, histVars>>

(* ------------------------------- Spec ---------------------------------- *)

Next ==
    \/ \E t \in Callers :
          \/ Call(t)
          \/ CreateCheck(t)
          \/ CreateStore(t)
          \/ Lookup(t)
          \/ Fetch(t)
          \/ Block(t)
          \/ Acquire(t)
          \/ Touch(t)
          \/ CheckMemory(t)
          \/ CheckAlive(t)
          \/ Put(t)
          \/ GetResult(t)
          \/ GetClosed(t)
          \/ GetTimeout(t)
          \/ ResultCheck(t)
          \/ TimeoutCheck(t)
    \/ \E s \in Ids :
          \/ WorkerGet(s)
          \/ WorkerAlloc(s)
          \/ WorkerBind(s)
          \/ WorkerFinish(s)
          \/ WorkerRaise(s)
          \/ WorkerExit(s)
          \/ Monitor(s)
    \/ Sweep
    \/ Tick

Spec == Init /\ [][Next]_vars

\* two sessions created by earlier calls, both registered, their workers
\* waiting for code and nobody calling; the registry of the source admits 40
\* sessions at once, and the scaled cap plays no part in what happens to
\* sessions that exist already
InitPair ==
    /\ sessions = {IdPool[1], IdPool[2]}
    /\ locks = {IdPool[1], IdPool[2]}
    /\ manager_lock = None
    /\ uuid_count = 2
    /\ lock_holder = [s \in Ids |-> None]
    /\ last_accessed = [s \in Ids |-> 0]
    /\ memory_exceeded = [s \in Ids |-> FALSE]
    /\ closed = [s \in Ids |-> FALSE]
    /\ input_queue = [s \in Ids |-> <<>>]
    /\ output_queue = [s \in Ids |-> <<>>]
    /\ alive = [s \in Ids |-> s \in {IdPool[1], IdPool[2]}]
    /\ wpc = [s \in Ids |-> IF s \in {IdPool[1], IdPool[2]} THEN "recv" ELSE "dead"]
    /\ rss_over = [s \in Ids |-> FALSE]
    /\ namespace = [s \in Ids |-> {}]
    /\ pc = [t \in Callers |-> "idle"]
    /\ loc = [t \in Callers |-> NoLoc]
    /\ ret = NoRet
    /\ now = 0
    /\ issued = {IdPool[1], IdPool[2]}
    /\ timed_out = {}
    /\ mem_reported = {}
    /\ faulted = {}
    /\ waiters = [s \in Ids |-> <<>>]
    /\ UnitOff

\* a request that names a session id (an issued one or one that never
\* existed)
CallExisting(t) ==
    /\ Call(t)
    /\ loc'[t].req # None

\* what can happen to existing sessions before the clock advances: calls on
\* them, their workers and their monitors; no session is idle long enough to
\* be swept, and no session is created
NextPair ==
    \/ \E t \in Callers :
          \/ CallExisting(t)
          \/ Lookup(t)
          \/ Fetch(t)
          \/ Block(t)
          \/ Acquire(t)
          \/ Touch(t)
          \/ CheckMemory(t)
          \/ CheckAlive(t)
          \/ Put(t)
          \/ GetResult(t)
          \/ GetTimeout(t)
          \/ ResultCheck(t)
          \/ TimeoutCheck(t)
    \/ \E s \in Ids :
          \/ WorkerGet(s)
          \/ WorkerAlloc(s)
          \/ WorkerBind(s)
          \/ WorkerFinish(s)
          \/ WorkerRaise(s)
          \/ WorkerExit(s)
          \/ Monitor(s)

\* the program with two sessions side by side
SpecPair == InitPair /\ [][NextPair]_vars

\* the cleanup thread is a daemon that loops for ever (_cleanup_loop), so a
\* sweep that stays possible is carried out; a thread inside
\* _create_session keeps running until it has released the manager lock
LiveSpec ==
    /\ Spec
    /\ WF_vars(Sweep)
    /\ \A t \in Callers : WF_vars(CreateStore(t))

\* one worker process from its start, statement by statement, running
\* MaxExec codes until its owner stops it; the session manager stands still
InitWorker ==
    /\ SysInit
    /\ UnitInit

NextWorker ==
    \/ Boot
    \/ Receive
    \/ ExecWriteOut
    \/ ExecWriteErr
    \/ ExecCall
    \/ ExecRaise
    \/ ExecRebind
    \/ ExecFinish
    \/ StopBegin
    \/ StopIsAlive
    \/ StopTerminate
    \/ ProcExit
    \/ StopJoin
    \/ StopRecheck
    \/ StopKill
    \/ StopClose

SpecWorker == InitWorker /\ [][NextWorker]_vars

\* where the operating system finds the file real_open is given: each ".."
\* leaves the directory reached so far, and the root is its own parent
RECURSIVE normpath(_, _)
normpath(done, rest) ==
    IF rest = <<>> THEN done
    ELSE IF Head(rest) = ".."
    THEN normpath(IF done = <<>> THEN <<>> ELSE SubSeq(done, 1, Len(done) - 1),
                  Tail(rest))
    ELSE normpath(Append(done, Head(rest)), Tail(rest))

resolve(path) == normpath(<<>>, path)

\* 'r' in mode and 'w' not in mode and 'a' not in mode and '+' not in mode
read_only(mode) ==
    "r" \in mode /\ "w" \notin mode /\ "a" \notin mode /\ "+" \notin mode

\* evaluated code calls open(file, mode) while the name is bound to safe_open
OpenCall ==
    /\ ~open_ret.called
    /\ LET r == safe_open(open_args.file, open_args.mode)
       IN  open_ret' = [called |-> TRUE, granted |-> r.granted, fault |-> r.fault]
    /\ UNCHANGED <<sysVars, workerVars, termVars, sweepVars, ctorVars, pollVars,
                   open_args>>

\* one call of safe_open, for every path and every mode
InitOpen ==
    /\ SysInit
    /\ CtorOff
    /\ PollOff
    /\ WorkerOff
    /\ SweepOff
    /\ open_args \in [file : Paths, mode : Modes]
    /\ open_ret = NoCall

NextOpen == OpenCall

SpecOpen == InitOpen /\ [][NextOpen]_vars

\* _cleanup_stale_sessions up to the end of the list comprehension: the
\* manager lock is taken and the stale ids are collected
SweepScan ==
    /\ sweep_pc = "idle"
    /\ manager_lock = None
    /\ stale_sessions # {}
    /\ manager_lock' = "cleanup"
    /\ sweep_stale' = stale_sessions
    /\ sweep_pc' = "remove"
    /\ ret' = NoRet
    /\ UNCHANGED <<sessions, locks, uuid_count, objVars, procVars, callVars,
                   now, histVars>>
    /\ UNCHANGED <<workerVars, termVars, openVars, ctorVars, pollVars>>

\* one turn of `for session_id in stale_sessions: self._remove_session(...)`
SweepRemove ==
    /\ sweep_pc = "remove"
    /\ \E s \in sweep_stale :
          /\ RemoveAll({s})
          /\ sweep_stale' = sweep_stale \ {s}
    /\ ret' = NoRet
    /\ UNCHANGED <<manager_lock, uuid_count, lock_holder, callVars, now, issued>>
    /\ UNCHANGED <<workerVars, termVars, openVars, ctorVars, pollVars, sweep_pc>>

\* the loop is over: the `with self.manager_lock` block ends
SweepDone ==
    /\ sweep_pc = "remove"
    /\ sweep_stale = {}
    /\ manager_lock' = None
    /\ sweep_pc' = "idle"
    /\ ret' = NoRet
    /\ UNCHANGED <<sessions, locks, uuid_count, objVars, procVars, callVars,
                   now, histVars>>
    /\ UNCHANGED <<workerVars, termVars, openVars, ctorVars, pollVars, sweep_stale>>

InitSweep ==
    /\ SysInit
    /\ CtorOff
    /\ PollOff
    /\ WorkerOff
    /\ OpenOff
    /\ sweep_pc = "idle"
    /\ sweep_stale = {}

\* the program with the sweep taken statement by statement
NextSweep ==
    \/ \E t \in Callers :
          \/ Call(t)
          \/ CreateCheck(t)
          \/ CreateStore(t)
          \/ Lookup(t)
          \/ Fetch(t)
          \/ Block(t)
          \/ Acquire(t)
          \/ Touch(t)
          \/ CheckMemory(t)
          \/ CheckAlive(t)
          \/ Put(t)
          \/ GetResult(t)
          \/ GetClosed(t)
          \/ GetTimeout(t)
          \/ ResultCheck(t)
          \/ TimeoutCheck(t)
    \/ \E s \in Ids :
          \/ WorkerGet(s)
          \/ WorkerAlloc(s)
          \/ WorkerBind(s)
          \/ WorkerFinish(s)
          \/ WorkerRaise(s)
          \/ WorkerExit(s)
          \/ Monitor(s)
    \/ SweepScan
    \/ SweepRemove
    \/ SweepDone
    \/ Tick

SpecSweep == InitSweep /\ [][NextSweep]_vars

\* the steps of the thread serving caller t's request, from the entry of
\* SessionManager.execute to its return
Running(t) ==
    \/ CreateCheck(t)
    \/ CreateStore(t)
    \/ Lookup(t)
    \/ Fetch(t)
    \/ Block(t)
    \/ Acquire(t)
    \/ Touch(t)
    \/ CheckMemory(t)
    \/ CheckAlive(t)
    \/ Put(t)
    \/ GetResult(t)
    \/ GetClosed(t)
    \/ GetTimeout(t)
    \/ ResultCheck(t)
    \/ TimeoutCheck(t)

\* fair scheduling of the request threads: a thread that can continuously
\* take a step takes one.  A thread blocked in acquire() can take a step only
\* while the lock is free, and threading.Lock promises a blocked thread
\* nothing when another thread takes the free lock first
LiveCalls ==
    /\ Spec
    /\ \A t \in Callers : WF_vars(Running(t))

\* the same with a lock that never passes over a waiting thread for ever
LiveCallsFairLock ==
    /\ LiveCalls
    /\ \A t \in Callers : SF_vars(Acquire(t))

\* _create_session up to `self.sessions[session_id] = session`, with the
\* manager lock given up before the lock entry is stored
StoreSession_releases(t) ==
    /\ pc[t] = "store"
    /\ LET s == uuid4 IN
       /\ uuid_count' = uuid_count + 1
       /\ last_accessed' = [last_accessed EXCEPT ![s] = now]
       /\ memory_exceeded' = [memory_exceeded EXCEPT ![s] = FALSE]
       /\ alive' = [alive EXCEPT ![s] = TRUE]
       /\ wpc' = [wpc EXCEPT ![s] = "recv"]
       /\ sessions' = sessions \cup {s}
       /\ loc' = [loc EXCEPT ![t].session_id = s]
    /\ manager_lock' = None
    /\ pc' = [pc EXCEPT ![t] = "store_lock"]
    /\ ret' = NoRet
    /\ UNCHANGED unitVars
    /\ UNCHANGED <<locks, lock_holder, closed, input_queue, output_queue,
                   rss_over, namespace, now, histVars>>

\* _create_session from uuid4 to `self.sessions[session_id] = session`
StoreSession(t) ==
    /\ pc[t] = "store"
    /\ LET s == uuid4 IN
       /\ uuid_count' = uuid_count + 1
       /\ last_accessed' = [last_accessed EXCEPT ![s] = now]
       /\ memory_exceeded' = [memory_exceeded EXCEPT ![s] = FALSE]
       /\ alive' = [alive EXCEPT ![s] = TRUE]
       /\ wpc' = [wpc EXCEPT ![s] = "recv"]
       /\ sessions' = sessions \cup {s}
       /\ loc' = [loc EXCEPT ![t].session_id = s]
    /\ pc' = [pc EXCEPT ![t] = "store_lock"]
    /\ ret' = NoRet
    /\ UNCHANGED unitVars
    /\ UNCHANGED <<locks, manager_lock, lock_holder, closed, input_queue,
                   output_queue, rss_over, namespace, now, histVars>>

\* `self.locks[session_id] = threading.Lock()`, `return session_id` and the
\* end of `with self.manager_lock`
StoreLock(t) ==
    /\ pc[t] = "store_lock"
    /\ locks' = locks \cup {loc[t].session_id}
    /\ manager_lock' = None
    /\ pc' = [pc EXCEPT ![t] = "lookup"]
    /\ ret' = NoRet
    /\ UNCHANGED unitVars
    /\ UNCHANGED <<sessions, uuid_count, objVars, procVars, loc, now, histVars>>

\* _remove_session up to `del self.sessions[session_id]`: session.terminate()
\* stops the worker and closes both queues, then the registry entry goes
RemoveSessionEntry ==
    /\ sweep_pc = "remove"
    /\ sweep_stale \cap (locks \ sessions) = {}
    /\ \E s \in sweep_stale :
          /\ alive' = Reset(alive, {s}, FALSE)
          /\ wpc' = Reset(wpc, {s}, "dead")
          /\ rss_over' = Reset(rss_over, {s}, FALSE)
          /\ namespace' = Reset(namespace, {s}, {})
          /\ closed' = Reset(closed, {s}, TRUE)
          /\ sessions' = sessions \ {s}
    /\ ret' = NoRet
    /\ UNCHANGED <<locks, manager_lock, uuid_count, lock_holder, last_accessed,
                   memory_exceeded, input_queue, output_queue, callVars, now,
                   histVars>>
    /\ UNCHANGED <<workerVars, termVars, openVars, ctorVars, pollVars, sweepVars>>

\* `del self.locks[session_id]`, the last statement of _remove_session
RemoveLockEntry ==
    /\ sweep_pc = "remove"
    /\ \E s \in sweep_stale \cap (locks \ sessions) :
          LET G == {s} \ InUse IN
          /\ locks' = locks \ {s}
          /\ sweep_stale' = sweep_stale \ {s}
          /\ closed' = Reset(closed, G, FALSE)
          /\ last_accessed' = Reset(last_accessed, G, 0)
          /\ memory_exceeded' = Reset(memory_exceeded, G, FALSE)
          /\ input_queue' = Reset(input_queue, G, <<>>)
          /\ output_queue' = Reset(output_queue, G, <<>>)
          /\ timed_out' = timed_out \ G
          /\ mem_reported' = mem_reported \ G
          /\ faulted' = faulted \ G
    /\ ret' = NoRet
    /\ UNCHANGED <<sessions, manager_lock, uuid_count, lock_holder, procVars,
                   callVars, now, issued, waiters>>
    /\ UNCHANGED <<workerVars, termVars, openVars, ctorVars, pollVars, sweep_pc>>

\* the program with the two dictionaries of SessionManager written one
\* statement at a time, in _create_session and in _remove_session
NextMaps ==
    \/ \E t \in Callers :
          \/ Call(t)
          \/ CreateCheck(t)
          \/ StoreSession(t)
          \/ StoreLock(t)
          \/ Lookup(t)
          \/ Fetch(t)
          \/ Block(t)
          \/ Acquire(t)
          \/ Touch(t)
          \/ CheckMemory(t)
          \/ CheckAlive(t)
          \/ Put(t)
          \/ GetResult(t)
          \/ GetClosed(t)
          \/ GetTimeout(t)
          \/ ResultCheck(t)
          \/ TimeoutCheck(t)
    \/ \E s \in Ids :
          \/ WorkerGet(s)
          \/ WorkerAlloc(s)
          \/ WorkerBind(s)
          \/ WorkerFinish(s)
          \/ WorkerRaise(s)
          \/ WorkerExit(s)
          \/ Monitor(s)
    \/ SweepScan
    \/ RemoveSessionEntry
    \/ RemoveLockEntry
    \/ SweepDone
    \/ Tick

SpecMaps == InitSweep /\ [][NextMaps]_vars

(* ------------------- SessionManager() constructed ---------------------- *)

\* the caller of SessionManager() goes on from one statement to the next
CtorGoto(k, where) ==
    /\ ctor_pc' = [ctor_pc EXCEPT ![k] = where]
    /\ ret' = NoRet
    /\ UNCHANGED <<objVars, procVars, callVars, now, histVars, uuid_count>>
    /\ UNCHANGED <<workerVars, termVars, openVars, sweepVars, pollVars>>

\* __new__: `if cls._instance is None:`, the test outside the lock
NewCheck(k) ==
    /\ ctor_pc[k] = "new_check"
    /\ CtorGoto(k, IF instance = 0 THEN "new_lock" ELSE "init_check")
    /\ UNCHANGED <<sessions, locks, manager_lock, instance, cls_lock,
                   initialized, cleanup_threads>>

\* __new__: `with cls._lock:`
NewLock(k) ==
    /\ ctor_pc[k] = "new_lock"
    /\ cls_lock = None
    /\ cls_lock' = k
    /\ CtorGoto(k, "new_recheck")
    /\ UNCHANGED <<sessions, locks, manager_lock, instance, initialized,
                   cleanup_threads>>

\* __new__: the second test, `cls._instance = super().__new__(cls)` when it
\* is still None, the end of the with block and `return cls._instance`
NewRecheck(k) ==
    /\ ctor_pc[k] = "new_recheck"
    /\ instance' = IF instance = 0 THEN 1 ELSE instance
    /\ cls_lock' = None
    /\ CtorGoto(k, "init_check")
    /\ UNCHANGED <<sessions, locks, manager_lock, initialized, cleanup_threads>>

\* __init__: `if hasattr(self, 'initialized'): return`
InitCheck(k) ==
    /\ ctor_pc[k] = "init_check"
    /\ CtorGoto(k, IF initialized THEN "done" ELSE "init_maps")
    /\ UNCHANGED <<sessions, locks, manager_lock, instance, cls_lock,
                   initialized, cleanup_threads>>

\* __init__: `self.sessions = {}`, `self.locks = {}` and
\* `self.manager_lock = threading.Lock()`, a new lock that nobody holds
InitMaps(k) ==
    /\ ctor_pc[k] = "init_maps"
    /\ sessions' = {}
    /\ locks' = {}
    /\ manager_lock' = None
    /\ CtorGoto(k, "init_thread")
    /\ UNCHANGED <<instance, cls_lock, initialized, cleanup_threads>>

\* __init__: `self.cleanup_thread = threading.Thread(...)` and `.start()`
InitThread(k) ==
    /\ ctor_pc[k] = "init_thread"
    /\ cleanup_threads' = cleanup_threads + 1
    /\ CtorGoto(k, "init_flag")
    /\ UNCHANGED <<sessions, locks, manager_lock, instance, cls_lock, initialized>>

\* __init__: `self.initialized = True` and the return to the caller
InitFlag(k) ==
    /\ ctor_pc[k] = "init_flag"
    /\ initialized' = TRUE
    /\ CtorGoto(k, "done")
    /\ UNCHANGED <<sessions, locks, manager_lock, instance, cls_lock,
                   cleanup_threads>>

\* a thread that has the instance calls execute(code, None) on it
CallCreate(t) ==
    /\ \E k \in Ctors : ctor_pc[k] = "done"
    /\ Call(t)
    /\ loc'[t].req = None

\* the class before the first SessionManager(): no instance; every thread in
\* Ctors is about to construct one
InitCtor ==
    /\ SysInit
    /\ WorkerOff
    /\ OpenOff
    /\ SweepOff
    /\ PollOff
    /\ ctor_pc = [k \in Ctors |-> "new_check"]
    /\ instance = 0
    /\ cls_lock = None
    /\ initialized = FALSE
    /\ cleanup_threads = 0

\* concurrent constructions, and the creation of sessions on the instance
\* by threads that have it
NextCtor ==
    \/ \E k \in Ctors :
          \/ NewCheck(k)
          \/ NewLock(k)
          \/ NewRecheck(k)
          \/ InitCheck(k)
          \/ InitMaps(k)
          \/ InitThread(k)
          \/ InitFlag(k)
    \/ \E t \in Callers :
          \/ CallCreate(t)
          \/ CreateCheck(t)
          \/ CreateStore(t)

SpecCtor == InitCtor /\ [][NextCtor]_vars

(* --------------------- monitor_process_windows ------------------------- *)

\* `stdout if stdout else None`
none_if_empty(text) == IF text = EMPTY THEN None ELSE text

\* what the rest of the program keeps while the single-shot executor runs
PollFrame ==
    /\ ret' = NoRet
    /\ UNCHANGED <<regVars, objVars, procVars, callVars, now, histVars>>
    /\ UNCHANGED <<workerVars, termVars, openVars, sweepVars, ctorVars>>

\* the monitor is between its start and its return
Polling == poll_pc \notin {"off", "done"}

\* time passes
ProcTick ==
    /\ Polling
    /\ elapsed < MaxElapsed
    /\ elapsed' = elapsed + 1
    /\ PollFrame
    /\ UNCHANGED <<poll_pc, process, poll_ret>>

\* the code run by `python -c` allocates: its resident memory is now above
\* memory_limit_bytes
ProcAlloc ==
    /\ Polling
    /\ process.running
    /\ ~process.rss_over
    /\ process' = [process EXCEPT !.rss_over = TRUE]
    /\ PollFrame
    /\ UNCHANGED <<poll_pc, elapsed, poll_ret>>

\* the code writes to its stdout or to its stderr
ProcWrite ==
    /\ Polling
    /\ process.running
    /\ \/ process.stdout = EMPTY /\ process' = [process EXCEPT !.stdout = "text"]
       \/ process.stderr = EMPTY /\ process' = [process EXCEPT !.stderr = "text"]
    /\ PollFrame
    /\ UNCHANGED <<poll_pc, elapsed, poll_ret>>

\* the code comes to its end and the process exits
ProcEnd ==
    /\ Polling
    /\ process.running
    /\ process' = [process EXCEPT !.running = FALSE, !.rss_over = FALSE]
    /\ PollFrame
    /\ UNCHANGED <<poll_pc, elapsed, poll_ret>>

\* process.kill(), which leaves a process that has exited alone, and
\* process.wait()
kill_and_wait(p) ==
    [p EXCEPT !.running = FALSE, !.killed = p.running, !.reaped = TRUE]

\* `while process.poll() is None:`
PollTest ==
    /\ poll_pc = "poll"
    /\ poll_pc' = IF process.running THEN "time" ELSE "communicate"
    /\ PollFrame
    /\ UNCHANGED <<elapsed, process, poll_ret>>

\* `elapsed = time.time() - start_time` and `if elapsed > timeout_seconds:`
\* with kill, wait and `return None, None, "execution timeout"`
PollTime ==
    /\ poll_pc = "time"
    /\ IF elapsed > timeout_seconds
       THEN /\ process' = kill_and_wait(process)
            /\ poll_ret' = <<None, None, "execution timeout">>
            /\ poll_pc' = "done"
       ELSE /\ poll_pc' = "sample"
            /\ UNCHANGED <<process, poll_ret>>
    /\ PollFrame
    /\ UNCHANGED elapsed

\* the try block: psutil.Process(process.pid) raises NoSuchProcess for a
\* process that is gone (break); a sample above the limit means kill, wait
\* and `return None, None, "memory limit exceeded"`; else time.sleep(0.1)
PollSample ==
    /\ poll_pc = "sample"
    /\ IF ~process.running
       THEN /\ poll_pc' = "communicate"
            /\ UNCHANGED <<process, poll_ret>>
       ELSE IF process.rss_over
       THEN /\ process' = kill_and_wait(process)
            /\ poll_ret' = <<None, None, "memory limit exceeded">>
            /\ poll_pc' = "done"
       ELSE /\ poll_pc' = "poll"
            /\ UNCHANGED <<process, poll_ret>>
    /\ PollFrame
    /\ UNCHANGED elapsed

\* `stdout, stderr = process.communicate()` and `return stdout, stderr, None`
\* with each empty stream turned into None
PollCommunicate ==
    /\ poll_pc = "communicate"
    /\ process' = [process EXCEPT !.reaped = TRUE]
    /\ poll_ret' = <<none_if_empty(process.stdout),
                     none_if_empty(process.stderr), None>>
    /\ poll_pc' = "done"
    /\ PollFrame
    /\ UNCHANGED elapsed

\* _execute_windows has spawned `python -c code` and calls
\* monitor_process_windows, which has taken start_time
InitPoll ==
    /\ SysInit
    /\ WorkerOff
    /\ OpenOff
    /\ SweepOff
    /\ CtorOff
    /\ poll_pc = "poll"
    /\ elapsed = 0
    /\ process = [NoProcess EXCEPT !.running = TRUE]
    /\ poll_ret = <<>>

NextPoll ==
    \/ ProcTick
    \/ ProcAlloc
    \/ ProcWrite
    \/ ProcEnd
    \/ PollTest
    \/ PollTime
    \/ PollSample
    \/ PollCommunicate

SpecPoll == InitPoll /\ [][NextPoll]_vars

(* ------------------------------ claims --------------------------------- *)

\* C1: in every reachable state, whatever the interleaving of creations,
\* executions and sweeps, the registry holds at most MAX_SESSIONS sessions.
C1_SessionCountWithinCap == Cardinality(sessions) <= MAX_SESSIONS

\* the registry is full for the second time, after a sweep, and a caller is
\* about to enter _create_session
C1_Witness ==
    /\ Cardinality(sessions) = MAX_SESSIONS
    /\ uuid_count >= 2
    /\ \E t \in Callers : pc[t] = "create"

\* registered sessions whose worker is alive
LiveSessions == {s \in sessions : alive[s]}

\* caller t leaves the cap check of _create_session in this step
LeavesCreateCheck(t) == pc[t] = "create" /\ pc'[t] # "create"

\* C2: a call with no session id fails with 'max sessions reached' exactly
\* when the number of sessions with a live worker is at the cap; the failure
\* spawns no worker and leaves the registry unchanged; otherwise the call
\* goes on to allocate, spawn and register a session.
C2_FailsExactlyWhenLiveCountAtCap ==
    [][\A t \in Callers : LeavesCreateCheck(t) =>
          /\ (ret'.error = "max sessions reached")
                <=> (Cardinality(LiveSessions) >= MAX_SESSIONS)
          /\ ret'.error = "max sessions reached"
                => UNCHANGED <<sessions, locks, uuid_count, alive, wpc>>
          /\ ret'.error # "max sessions reached" => pc'[t] = "store"]_vars

\* C3: a call with an id that is not in the registry returns 'session not
\* found' with stdout and stderr absent and the supplied id echoed; the step
\* creates nothing and changes neither the registry nor any session.
C3_UnknownIdNotFound ==
    [][/\ \A t \in Callers :
             (/\ pc[t] = "lookup"
              /\ pc'[t] # "lookup"
              /\ loc[t].req # None
              /\ loc[t].req \notin sessions)
             => ret' = Outcome(t, loc[t].req, None, None, "session not found",
                               loc[t].req)
       /\ (ret'.error = "session not found" /\ ret'.req # None)
             => /\ ret'.req \notin sessions
                /\ ret'.session_id = ret'.req
                /\ ret'.stdout = None
                /\ ret'.stderr = None
                /\ UNCHANGED <<regVars, objVars, procVars>>]_vars

\* the id of a swept session is supplied while another session is registered
C3_Witness ==
    /\ ret.error = "session not found"
    /\ ret.req \in Ids
    /\ ret.session_id = ret.req
    /\ sessions # {}

\* C4 (as stated): every call with no session id returns a populated id that
\* no call returned before.
C4_EveryNoIdCallGetsFreshId ==
    [][(ret'.kind = "return" /\ ret'.req = None)
          => (ret'.session_id \in Ids /\ ret'.session_id \notin issued)]_vars

\* C4 (amended): every call with no session id that returns an outcome other
\* than 'max sessions reached' returns a populated id that no call returned
\* before, so no two such calls return the same id; a call refused with 'max
\* sessions reached' returns the empty string as id.
C4_AdmittedNoIdCallGetsFreshId ==
    [][(ret'.kind = "return" /\ ret'.req = None)
          => IF ret'.error = "max sessions reached"
             THEN ret'.session_id = EMPTY
             ELSE ret'.session_id \in Ids /\ ret'.session_id \notin issued]_vars

\* a second call with no id has returned an id
C4_Witness ==
    /\ ret.kind = "return"
    /\ ret.req = None
    /\ ret.session_id \in Ids
    /\ Cardinality(issued) >= 2

\* positions of SessionManager.execute inside `with session_lock:`
Locked == InSession \ {"acquire", "blocked"}

\* C5: per session at most one execution is in flight: every caller inside
\* `with session_lock:` holds that session's lock, so no two callers are
\* inside for the same session, and the worker never has more than one
\* code string waiting.
C5_OneExecutionInFlight ==
    /\ \A t \in Callers :
          pc[t] \in Locked => lock_holder[loc[t].session_id] = t
    /\ \A s \in Ids : Len(input_queue[s]) <= 1

\* a call waits for its result while a second call on the same session is
\* blocked at the lock
C5_Witness ==
    \E t, u \in Callers :
        /\ pc[t] = "get"
        /\ pc[u] = "acquire"
        /\ loc[t].session_id = loc[u].session_id

C7_CrashedAfterMemoryLimit ==
    [][\A s \in mem_reported \cap sessions :
          (ret'.kind = "return" /\ ret'.session_id = s)
             => ret'.error = "session crashed"]_vars

\* what the code does instead: on a registered session that has reported
\* 'memory limit exceeded', every call returns 'memory limit exceeded' again
MemoryLimitRepeats ==
    [][\A s \in mem_reported \cap sessions :
          (ret'.kind = "return" /\ ret'.session_id = s)
             => ret'.error = "memory limit exceeded"]_vars

\* C8: the memory violation beats the timeout: the timeout path reads the
\* flag after the worker has been terminated and in the step that emits the
\* outcome; with the flag set the outcome is 'memory limit exceeded', and
\* 'execution timeout' is never returned while the flag is set.
C8_MemoryBeatsTimeout ==
    [][/\ \A t \in Callers :
             (/\ pc[t] = "timeout_check"
              /\ pc'[t] = "idle"
              /\ memory_exceeded[loc[t].session_id])
             => ret' = Outcome(t, loc[t].req, None, None, "memory limit exceeded",
                               loc[t].session_id)
       /\ \A t \in Callers :
             pc'[t] = "timeout_check" => ~alive'[loc'[t].session_id]
       /\ ret'.error = "execution timeout"
             => (~memory_exceeded[ret'.session_id] /\ ~alive[ret'.session_id])]_vars

\* the wait for the result has expired on an execution during which the
\* monitor set the flag
C8_Witness ==
    \E t \in Callers :
        /\ pc[t] = "timeout_check"
        /\ memory_exceeded[loc[t].session_id]

C10_ErrorExcludesOutput ==
    ret.kind = "return" => check_mutual_exclusivity(ret)

\* an error outcome on a session whose worker had produced output
C10_Witness ==
    /\ ret.kind = "return"
    /\ ret.error = "memory limit exceeded"
    /\ ret.stdout = None
    /\ ret.stderr = None
    /\ ret.session_id \in sessions

\* C11: whenever a session exists for a call, every outcome it returns, on
\* success and on timeout, memory and crash alike, carries that session's
\* id; for a call that supplied an id the returned id is the supplied one.
C11_OutcomeCarriesSessionId ==
    [][/\ \A t \in Callers :
             (pc[t] \in Locked /\ pc'[t] = "idle")
             => /\ ret'.kind = "return"
                /\ ret'.caller = t
                /\ ret'.session_id = loc[t].session_id
                /\ ret'.session_id \in Ids
       /\ (ret'.kind = "return" /\ ret'.req # None)
             => ret'.session_id = ret'.req]_vars

\* a call that supplied its session's id gets 'execution timeout' with the id
C11_Witness ==
    /\ ret.kind = "return"
    /\ ret.error = "execution timeout"
    /\ ret.req \in Ids
    /\ ret.session_id = ret.req

\* C12: the response the route builds from an outcome that is not mapped to
\* HTTP 500 has a field id equal to the session id SessionManager.execute
\* returned.
C12_ResponseHasId ==
    (ret.kind = "return" /\ execute_code(ret).status = 200)
       => /\ "id" \in DOMAIN execute_code(ret).body
          /\ execute_code(ret).body.id = ret.session_id

\* what the code does instead: no response carries a field id
ResponseNeverHasId ==
    ret.kind = "return" => "id" \notin DOMAIN execute_code(ret).body

\* C13: for every fault raised by the evaluated code the outcome has error
\* absent and stderr populated.
C13_FaultBecomesStderr ==
    [][\A t \in Callers :
          (/\ pc[t] \in Locked
           /\ pc'[t] = "idle"
           /\ loc[t].session_id \in faulted)
          => (ret'.error = None /\ ret'.stderr # None)]_vars

\* a fault that `except Exception` does not catch has ended the worker of a
\* registered session whose memory flag is clear, and the caller's wait has
\* expired
UncaughtFaultTimesOut ==
    \E t \in Callers :
        /\ pc[t] = "timeout_check"
        /\ loc[t].session_id \in faulted \cap sessions
        /\ ~memory_exceeded[loc[t].session_id]

\* what the code does: a caught fault whose result is received with the
\* memory flag clear comes back as stderr text without error
CaughtFaultBecomesStderr ==
    [][\A t \in Callers :
          (/\ pc[t] = "result_check"
           /\ pc'[t] = "idle"
           /\ loc[t].session_id \in faulted
           /\ ~memory_exceeded[loc[t].session_id])
          => (ret'.error = None /\ ret'.stderr # None)]_vars

\* C14: a fault raised by evaluated code never ends the receive loop: after
\* the fault the worker is alive and waiting for the next code, and the
\* namespace built by earlier executions is intact.
C14_WorkerSurvivesFault ==
    [][\A s \in Ids :
          (s \notin faulted /\ s \in faulted')
          => /\ alive'[s]
             /\ wpc'[s] = "recv"
             /\ namespace'[s] = namespace[s]]_vars

\* C15: a binding made by an execution on session A stays in A's namespace
\* for as long as A's worker lives, so later executions on A see it; and a
\* step in which the code running on A binds something leaves the namespace
\* of every other session B as it was, so B holds only bindings made by
\* executions on B.
C15_NamespacePersistsAndIsolated ==
    [][\A a \in Ids :
          /\ (alive[a] /\ alive'[a]) => namespace[a] \subseteq namespace'[a]
          /\ namespace'[a] \subseteq {a}
          /\ (wpc[a] = "exec" /\ ~(namespace'[a] \subseteq namespace[a]))
             => \A b \in Ids \ {a} : namespace'[b] = namespace[b]]_vars

\* two live registered sessions: A holds the binding of an execution that
\* has ended and the code of a later call on A is waiting in its queue; B,
\* whose worker has run code too, holds nothing of A's
C15_Witness ==
    \E a, b \in sessions :
        /\ a # b
        /\ alive[a] /\ alive[b]
        /\ namespace[a] = {a}
        /\ wpc[a] = "recv" /\ input_queue[a] # <<>>
        /\ namespace[b] = {}
        /\ wpc[b] = "exec"

\* C16: the sweep and an execution on the same session never interleave
\* inconsistently: the lookup of execute either finds the session whole or
\* returns 'session not found' (it never fails half way), no call forwards
\* code to a session the sweep has removed, and no call returns an outcome
\* produced on such a session.
C16_SweepNeverRacesExecution ==
    [][/\ ret'.kind # "raise"
       /\ \A t \in Callers :
             /\ (pc[t] = "put" /\ pc'[t] = "get") => loc[t].session_id \in sessions
             /\ (pc[t] \in Locked /\ pc'[t] = "idle") => loc[t].session_id \in sessions]_vars

\* the sweep has removed a session between the membership test of execute
\* and its two dictionary reads
RemovedBetweenLookupAndFetch ==
    \E t \in Callers : pc[t] = "fetch" /\ loc[t].session_id \notin sessions

\* the sweep has removed a session whose objects a caller has read from the
\* dictionaries and is about to use
RemovedAfterFetch ==
    \E t \in Callers : pc[t] = "acquire" /\ loc[t].session_id \notin sessions

\* C17: whenever there are sessions idle for longer than IDLE_TIMEOUT_SECONDS
\* (stale_sessions), a later state has none: each of them has been removed
\* by the sweep unless a call touched it first; the removal ends the
\* session's worker; a removed id never comes back into the registry, and
\* every call made with it after the removal returns 'session not found'.
C17_IdleSessionEventuallyRemoved ==
    /\ (stale_sessions # {}) ~> (stale_sessions = {})
    /\ [][\A s \in Ids :
             /\ (s \in sessions /\ s \notin sessions') => ~alive'[s]
             /\ (s \in issued \ sessions) => s \notin sessions'
             /\ \A t \in Callers :
                   (/\ loc[t].req = s
                    /\ pc[t] = "lookup"
                    /\ pc'[t] # "lookup"
                    /\ s \in issued \ sessions)
                   => (/\ ret'.kind = "return"
                       /\ ret'.caller = t
                       /\ ret'.error = "session not found")]_vars

\* the sweep has removed an issued session and ended its worker, and a call
\* made with its id has just returned 'session not found'
C17_Witness ==
    /\ ret.kind = "return"
    /\ ret.error = "session not found"
    /\ ret.req \in issued \ sessions
    /\ ~alive[ret.req]

\* C18: executions on one session are served in the order in which their
\* calls arrived at the session lock: a call enters `with session_lock`
\* (and so forwards its code) only when no call that started waiting for
\* that lock earlier is still waiting.
C18_ServedInArrivalOrder ==
    [][\A t \in Callers :
          (pc[t] \in {"acquire", "blocked"} /\ pc'[t] = "touch")
          => \/ waiters[loc[t].session_id] = <<>>
             \/ Head(waiters[loc[t].session_id]) = t]_vars

\* a call blocked at the lock of a registered session while the lock is
\* free again and a later call on the same session has reached the lock
WaiterCanBeOvertaken ==
    \E t, u \in Callers :
        /\ pc[t] = "blocked" /\ pc[u] = "acquire"
        /\ loc[t].session_id = loc[u].session_id
        /\ loc[t].session_id \in sessions
        /\ lock_holder[loc[t].session_id] = None

\* C19: an execution in flight holds the lock of its own session and nothing
\* else: never the manager lock, which only a thread inside _create_session
\* holds, and never the lock of another session; so creation, the sweep and
\* executions on other sessions do not wait for it.
C19_ExecutionHoldsOnlySessionLock ==
    /\ \A t \in Callers :
          pc[t] \in Locked
          => /\ manager_lock # t
             /\ \A s \in Ids : lock_holder[s] = t <=> s = loc[t].session_id
    /\ manager_lock # None => pc[manager_lock] = "store"

\* while one call waits for the result of its execution, the sweep has
\* removed its session and another call is inside _create_session with the
\* manager lock
C19_Witness ==
    \E t, u \in Callers :
        /\ pc[t] = "get"
        /\ loc[t].session_id \notin sessions
        /\ pc[u] = "store"
        /\ manager_lock = u

\* C20: whenever the manager lock is free, every live worker process is the
\* worker of a registered session: a spawned worker is registered before the
\* lock is released, and a removal has ended the worker by the time the
\* entry is gone.
C20_LiveWorkersAreRegistered ==
    manager_lock = None => \A s \in Ids : alive[s] => s \in sessions

\* the manager lock is free, one session is registered with its worker
\* alive, and the sweep has removed another whose worker it has ended and
\* whose queues it has closed
C20_Witness ==
    /\ manager_lock = None
    /\ \E a \in sessions : alive[a]
    /\ \E b \in issued \ sessions : ~alive[b] /\ closed[b]

\* C21: a session is destroyed when its worker dies: whenever the manager
\* lock is free every registered session has a live worker, so no session
\* with a dead worker stays in the registry or counts against the cap.
C21_DeadWorkerSessionDestroyed ==
    manager_lock = None => \A s \in sessions : alive[s]

\* what the code does: a call without id is refused with 'max sessions
\* reached' while every registered session has a dead worker
DeadWorkerCountsAgainstCap ==
    /\ ret.kind = "return"
    /\ ret.error = "max sessions reached"
    /\ sessions # {}
    /\ \A s \in sessions : ~alive[s]

\* C22: the worker of a session id is never replaced: a worker process
\* starts only for the id that _create_session is handing out, and a call on
\* a registered session whose worker is dead returns an error with stdout
\* and stderr absent.
C22_DeadWorkerNeverReplaced ==
    [][/\ \A s \in Ids :
             (~alive[s] /\ alive'[s])
             => /\ s = uuid4
                /\ s \notin issued
                /\ uuid_count' = uuid_count + 1
       /\ \A t \in Callers :
             (/\ pc[t] \in Locked
              /\ pc'[t] = "idle"
              /\ loc[t].session_id \in sessions
              /\ ~alive[loc[t].session_id])
             => /\ ret'.error # None
                /\ ret'.stdout = None
                /\ ret'.stderr = None]_vars

\* a call on a registered session whose worker a timeout kill ended earlier
\* has just returned 'session crashed', and the worker is still dead
C22_Witness ==
    /\ ret.kind = "return"
    /\ ret.error = "session crashed"
    /\ ret.session_id \in sessions \cap timed_out
    /\ ~alive[ret.session_id]

\* the stderr of the tuple just put holds the rendering of fault f
StderrHolds(result, f) ==
    /\ ~result[2].none
    /\ \E i \in 1..Len(result[2].text) :
          /\ result[2].text[i].type = f.type
          /\ result[2].text[i].resource = f.resource

\* C23: a call of a denied primitive from evaluated code always ends the
\* execution with a result whose error is absent and whose stderr holds the
\* PermissionError naming the first argument, and the operation itself is
\* not carried out.
C23_DeniedCallBecomesPermissionError ==
    [][ExecCall
       => /\ performed' = performed
          /\ wf_pc' = "recv"
          /\ put_result'[3] = None
          /\ raised'.type = "PermissionError"
          /\ StderrHolds(put_result', raised')]_vars

\* the code has written to stderr and the names are still bound to the
\* stubs: the call of a denied primitive that comes next is reported through
\* the text already captured
StderrWrittenBeforeDeniedCall ==
    /\ wf_pc = "exec"
    /\ stderr_capture # <<>>
    /\ bound_real = {}

\* what the code does: a call of a stub made while nothing has been written
\* to stderr ends with error absent and the PermissionError as stderr, and
\* performs nothing
StubCallWithCleanStderr ==
    [][(ExecCall /\ bound_real = {} /\ stderr_capture = <<>>)
       => /\ performed' = performed
          /\ put_result'[3] = None
          /\ raised'.type = "PermissionError"
          /\ StderrHolds(put_result', raised')]_vars

\* C24: the filter is applied exactly once per worker, before the worker
\* receives its first code, and its effect lasts: whenever the worker waits
\* for code or runs it, no denied primitive is bound to its real
\* implementation, whatever the executions before did.
C24_FilterAppliedOnceAndLasting ==
    wf_pc \in {"recv", "exec"} => (applied = 1 /\ bound_real = {})

\* what the code does: the filter has run exactly once whenever the worker
\* waits for code or runs it
FilterAppliedOnce ==
    /\ wf_pc \in {"recv", "exec"} => applied = 1
    /\ wf_pc = "boot" => applied = 0

\* the worker waits for its second code with a denied name bound to the
\* real implementation by the first
DeniedNameReboundForNextCode ==
    /\ wf_pc = "recv"
    /\ exec_no = 1
    /\ bound_real # {}

\* C25: stopping a worker always tries the graceful stop first and issues
\* the forced kill only afterwards, and only if the process was found alive
\* once the join of at most a second had returned; in terminate() and in
\* the Empty handler of SessionProcess.execute alike.
C25_GracefulStopBeforeKill ==
    /\ (\E i \in 1..Len(stop_log) : stop_log[i] = "kill")
       => stop_log = <<"terminate", "join", "alive", "kill">>
    /\ term_pc = "kill" => stop_log = <<"terminate", "join", "alive">>

\* a worker that did not exit on SIGTERM has been killed on the timeout
\* path, after the graceful stop, the join and the look at is_alive()
C25_Witness ==
    /\ term_path = "timeout"
    /\ stubborn
    /\ stop_log = <<"terminate", "join", "alive", "kill">>
    /\ ~is_alive

\* C26: every fault of the supervising infrastructure during an execute call
\* comes back as the outcome 'Internal server error': no exception leaves
\* SessionManager.execute, and a call that finds its channel closed returns
\* that outcome and not a success.
C26_InfrastructureFaultsCollapse ==
    [][/\ ret'.kind # "raise"
       /\ \A t \in Callers :
             (/\ pc[t] \in {"put", "get"}
              /\ closed[loc[t].session_id]
              /\ pc'[t] = "idle")
             => (ret'.kind = "return" /\ ret'.error = "Internal server error")]_vars

\* what the code does: a closed channel met inside SessionProcess.execute
\* becomes the outcome 'Internal server error', which the route turns into
\* HTTP 500, as it does an exception that leaves SessionManager.execute
ChannelFaultBecomesInternalError ==
    [][/\ \A t \in Callers :
             (/\ pc[t] \in {"put", "get"}
              /\ closed[loc[t].session_id]
              /\ pc'[t] = "idle")
             => (ret'.kind = "return" /\ ret'.error = "Internal server error")
       /\ (ret'.kind = "raise" \/ ret'.error = "Internal server error")
          => execute_code(ret') = HTTP_500]_vars

\* C27: for code that ends without a fault the tuple the worker puts is
\* (stdout, stderr, None) where each stream is exactly what the code wrote
\* to it during this execution, None when it wrote nothing; nothing written
\* by an earlier execution is in it.
C27_ResultIsWhatThisExecutionWrote ==
    [][ExecFinish
       => /\ put_result' = <<OrNone(wrote_out), OrNone(wrote_err), None>>
          /\ \A k \in 1..2 :
                \A i \in 1..Len(put_result'[k].text) :
                   put_result'[k].text[i].n = exec_no]_vars

\* the second execution, which wrote to stdout only, has ended without a
\* fault and its result has been put
C27_Witness ==
    /\ wf_pc = "recv"
    /\ exec_no = 2
    /\ raised = NoFault
    /\ wrote_out = <<Text(2)>> /\ wrote_err = <<>>
    /\ put_result = <<OrNone(<<Text(2)>>), Absent, None>>

\* C28: when the evaluated code raises, the worker puts (None, rendering of
\* the fault, None), whatever the code wrote to stdout or stderr before it
\* raised.
C28_FaultRenderedAsStderr ==
    [][(wf_pc = "exec" /\ wf_pc' = "recv" /\ raised' # NoFault)
       => put_result' = <<Absent, OrNone(format_exc(raised', exec_no)), None>>]_vars

\* what the handler does send: stdout and error are absent, and stderr is
\* the rendering of the fault when the code wrote nothing to stderr before
FaultWithCleanStderrIsRendered ==
    [][(wf_pc = "exec" /\ wf_pc' = "recv" /\ raised' # NoFault)
       => /\ put_result'[1] = Absent
          /\ put_result'[3] = None
          /\ (stderr_capture = <<>>
                => put_result'[2] = OrNone(format_exc(raised', exec_no)))
          /\ (stderr_capture # <<>>
                => put_result'[2] = OrNone(stderr_capture))]_vars

\* C29: open as replaced by the sandbox grants a call only when the mode is
\* read-only and the file is under /proc/, and then the file it opens is
\* inside /proc; every other call raises PermissionError naming the path.
C29_OpenGrantsOnlyReadsInsideProc ==
    open_ret.called
    => /\ open_ret.granted
          => /\ read_only(open_args.mode)
             /\ resolve(open_args.file) # <<>>
             /\ resolve(open_args.file)[1] = "proc"
       /\ ~open_ret.granted
          => open_ret.fault = PermissionError(open_args.file)

\* what safe_open does: it grants exactly the read-only calls whose path
\* text begins with /proc/, and raises PermissionError naming the path for
\* every other call
OpenGrantsReadOfProcPrefix ==
    open_ret.called
    => /\ open_ret.granted
          <=> (read_only(open_args.mode) /\ startswith_proc(open_args.file))
       /\ ~open_ret.granted
          => open_ret.fault = PermissionError(open_args.file)

\* a granted call whose path leaves /proc through ".."
GrantedPathOutsideProc ==
    /\ open_ret.called
    /\ open_ret.granted
    /\ open_args.file = <<"proc", "..", "etc">>
    /\ resolve(open_args.file) = <<"etc">>

\* C30: the sweep removes a session only if its last access is older than
\* the idle timeout, so a session accessed within the timeout is never
\* removed; a removed session has its registry entry and its lock entry
\* deleted and its worker terminated.
C30_SweepRemovesOnlyIdleSessions ==
    [][\A s \in sessions \ sessions' :
          /\ now - last_accessed[s] > IDLE_TIMEOUT_SECONDS
          /\ s \notin locks'
          /\ ~alive'[s]]_vars

\* what the sweep does: it removes the sessions that were idle beyond the
\* timeout when it scanned the registry, and deletes both entries of each and
\* stops its worker
SweepRemovesWhatItsScanFound ==
    [][/\ SweepScan
          => sweep_stale' = {s \in sessions :
                               now - last_accessed[s] > IDLE_TIMEOUT_SECONDS}
       /\ \A s \in sessions \ sessions' :
             /\ s \in sweep_stale
             /\ s \notin locks'
             /\ ~alive'[s]]_vars

\* a session on the sweep's list has been accessed since the scan and is
\* about to be removed
FreshSessionAboutToBeRemoved ==
    /\ sweep_pc = "remove"
    /\ \E s \in sweep_stale :
          /\ s \in sessions
          /\ last_accessed[s] = now
          /\ \E t \in Callers : lock_holder[s] = t

\* C31: every call of SessionManager.execute eventually returns: no thread
\* holds the manager lock and a session lock at once (so the locks are never
\* held in a cycle), a wait on the output queue ends, and a call waiting for a
\* session lock eventually acquires it.
C31_EveryCallReturns ==
    /\ \A t \in Callers : (pc[t] # "idle") ~> (pc[t] = "idle")
    /\ \A t \in Callers : (pc[t] = "blocked") ~> (pc[t] = "touch")
    /\ [](\A t \in Callers :
             manager_lock = t => \A s \in Ids : lock_holder[s] # t)

\* no thread holds the manager lock and a session lock at once, and a thread
\* that is not waiting for a session lock always returns
UnblockedCallReturns ==
    /\ \A t \in Callers : (pc[t] \notin {"idle", "blocked"})
                             ~> (pc[t] \in {"idle", "blocked"})
    /\ [](\A t \in Callers :
             manager_lock = t => \A s \in Ids : lock_holder[s] # t)

\* a call is blocked in acquire() of a session lock that another call holds
CallBlockedOnSessionLock ==
    \E t, u \in Callers :
       /\ t # u
       /\ pc[t] = "blocked"
       /\ lock_holder[loc[t].session_id] = u

\* C32: the memory_exceeded flag of a session goes from False to True only in
\* a step of that session's monitor, which leaves every other session's flag
\* alone, and a flag that is set stays set for as long as the session is
\* registered or a call still refers to it.
C32_MemoryFlagSetOnceByMonitor ==
    [][\A s \in Ids :
          /\ (~memory_exceeded[s] /\ memory_exceeded'[s])
             => /\ Monitor(s)
                /\ \A u \in Ids \ {s} : memory_exceeded'[u] = memory_exceeded[u]
          /\ (memory_exceeded[s] /\ ~memory_exceeded'[s])
             => (s \notin sessions' /\ s \notin InUse')]_vars

\* the flag of a registered session was set by its monitor, no other flag is
\* set, and a later call naming the session has just been answered from the
\* flag
C32_Witness ==
    /\ ret.kind = "return"
    /\ ret.error = "memory limit exceeded"
    /\ ret.req \in sessions
    /\ memory_exceeded[ret.req]
    /\ ~alive[ret.req]
    /\ \A u \in Ids \ {ret.req} : ~memory_exceeded[u]

\* C33: whenever the manager lock is free, SessionManager.sessions and
\* SessionManager.locks have the same keys: every registered session has its
\* lock and no lock is left for an id that is not registered.
C33_SessionAndLockKeysAgree ==
    manager_lock = None => sessions = locks

\* the manager lock is free after one session was created and registered
\* and another was removed by the sweep: the two dictionaries hold the
\* same single key
C33_Witness ==
    /\ manager_lock = None
    /\ sessions # {}
    /\ sessions = locks
    /\ issued \ sessions # {}
    /\ sweep_pc = "idle"

\* under the manager lock the two dictionaries differ for a moment, in
\* _create_session and in _remove_session
KeysDifferUnderManagerLock ==
    /\ manager_lock # None
    /\ sessions # locks

\* C34: SessionManager is initialised at most once whatever the interleaving
\* of concurrent constructions: only one object is ever made, __init__ never
\* assigns the session map again once sessions are registered, and at most
\* one cleanup thread is started.
C34_SingletonInitialisedOnce ==
    /\ [](instance <= 1 /\ cleanup_threads <= 1)
    /\ [][\A k \in Ctors :
             (ctor_pc[k] = "init_maps" /\ ctor_pc'[k] = "init_thread")
             => sessions = {}]_vars

\* what the two methods do give: __new__ makes one object and hands it to
\* every construction, and a construction that begins __init__ after another
\* has set `initialized` changes nothing
OneObjectAndNoLateInit ==
    /\ [](instance <= 1)
    /\ [](\A k \in Ctors : ctor_pc[k] = "done" => instance = 1)
    /\ [][\A k \in Ctors :
             (ctor_pc[k] = "init_check" /\ initialized)
             => (ctor_pc'[k] \in {"init_check", "done"}
                 /\ sessions \subseteq sessions'
                 /\ cleanup_threads' = cleanup_threads)]_vars

\* a second construction has emptied the session map after a session was
\* registered, and the second cleanup thread has been started
SecondInitAfterRegistration ==
    /\ cleanup_threads = 2
    /\ sessions = {}
    /\ uuid_count >= 1

\* C35: monitor_process_windows returns 'memory limit exceeded' when the
\* memory of the running process is above the limit, also when the timeout
\* has passed at the same poll; 'execution timeout' when only the timeout has
\* passed; in both cases the process is killed and reaped before the return;
\* for a process that has exited it returns stdout and stderr, None when
\* empty, and no error.
C35_PollingMonitorOutcome ==
    [][(Polling /\ poll_pc' = "done")
       => LET over_memory == process.running /\ process.rss_over
              over_time == poll_pc = "time" /\ elapsed > timeout_seconds
          IN  /\ over_memory
                 => /\ poll_ret' = <<None, None, "memory limit exceeded">>
                    /\ process'.killed /\ process'.reaped /\ ~process'.running
              /\ (over_time /\ ~over_memory)
                 => /\ poll_ret' = <<None, None, "execution timeout">>
                    /\ process'.reaped /\ ~process'.running
              /\ poll_pc = "communicate"
                 => poll_ret' = <<none_if_empty(process.stdout),
                                  none_if_empty(process.stderr), None>>]_vars

\* what the function does: the same outcomes, with the timeout reported
\* whenever its test finds it passed, whatever the memory of the process is
PollingMonitorTimeoutFirst ==
    [][(Polling /\ poll_pc' = "done")
       => LET over_memory == process.running /\ process.rss_over
              over_time == poll_pc = "time" /\ elapsed > timeout_seconds
          IN  /\ over_time
                 => /\ poll_ret' = <<None, None, "execution timeout">>
                    /\ process'.reaped /\ ~process'.running
              /\ (over_memory /\ ~over_time)
                 => /\ poll_ret' = <<None, None, "memory limit exceeded">>
                    /\ process'.killed /\ process'.reaped /\ ~process'.running
              /\ poll_pc = "communicate"
                 => /\ poll_ret' = <<none_if_empty(process.stdout),
                                     none_if_empty(process.stderr), None>>
                    /\ ~process'.killed]_vars

\* the function has returned 'execution timeout' after killing a process
\* whose memory was above the limit at that poll
BothViolationsReportedAsTimeout ==
    /\ poll_pc = "done"
    /\ poll_ret = <<None, None, "execution timeout">>
    /\ process.rss_over
    /\ process.killed
    /\ elapsed > timeout_seconds

====
